---- MODULE Spec2Model ----
(***************************************************************************)
(* Agent-Skills-Hub: the skill warehouse (enabled / disabled partitions),  *)
(* the directory mover safeMove, the GitHub source registry with its       *)
(* import, and the tool link manager (linkTool / unlinkTool).              *)
(*                                                                         *)
(* Fault model.  The operating system may refuse exactly the operations    *)
(* for which the code carries a handler: rename, the recursive copy        *)
(* copyDirectory, the retrying removeDirectory, git clone / pull, and the  *)
(* removal of a directory link.  Registry reads and writes, mkdir of the   *)
(* partitions and fs.promises.rm({recursive, force}) are taken to succeed. *)
(***************************************************************************)
EXTENDS Integers, Sequences, FiniteSets, TLC

\* ------------------------------------------------------------------ bounds
\* Remote revisions of a source repository are 1..MaxRev.
MaxRev == 2

\* Package names that occur on disk and in the source repositories.
Names == {"p", "q"}

\* Registered-source ids (owner-repo).
SrcIds == {"s1", "s2"}

\* ------------------------------------------------------------ directories
MARKER == "SKILL.md"
META == ".skill-meta.json"
Files == {MARKER, META}

\* Content of a file written by the user, not by an import.
LocalV == MaxRev + 1

\* A package directory: ex = the directory exists, f[x] = content of file x
\* (0 = no such file).
NoDir == [ex |-> FALSE, f |-> [x \in Files |-> 0]]
EmptyDir == [ex |-> TRUE, f |-> [x \in Files |-> 0]]
LocalPkg == [ex |-> TRUE, f |-> [x \in Files |-> IF x = META THEN 0 ELSE LocalV]]

FilesOf(d) == {x \in Files : d.f[x] # 0}

\* fs.existsSync(path.join(dir, 'SKILL.md'))
HasMarker(d) == d.ex /\ d.f[MARKER] # 0

VARIABLES
    enabled,     \* [Names -> Dir]   ~/.claude/skills/<name>
    disabled,    \* [Names -> Dir]   ~/.claude/skills/.disabled/<name>
    registry,    \* Seq(SkillSource) the array stored in .sources.json
    checkout,    \* [SrcIds -> 0..MaxRev] revision checked out under .sources/<id>, 0 = no directory
    remote,      \* [SrcIds -> 1..MaxRev] head revision of the remote branch
    staleLog,    \* names for which safeMove warned "请手动删除源目录"
    platform,    \* os.platform(): "win32" or "posix"
    node,        \* [Paths -> Node] what lies at each tool's skills path
    wh,          \* the central warehouse directory ~/.agent/skills
    root,        \* [Roots -> BOOLEAN] the root directory of a tool exists
    sparse,      \* a sparse checkout being made and scanned (its own specification)
    proc,        \* the registry operations in flight (its own specification)
    last         \* what the last operation returned

hubVars == <<enabled, disabled, registry, checkout, remote, staleLog>>
linkVars == <<platform, node, wh, root>>
extVars == <<sparse, proc>>
vars == <<enabled, disabled, registry, checkout, remote, staleLog, platform, node, wh,
          root, sparse, proc, last>>

\* No sparse checkout is being made, no registry operation is in flight.
NoSparse == [phase |-> "idle"]
NoProcs == <<>>

\* ------------------------------------------------- outcomes the OS may give
\* copyDirectory: mk = mkdir(dest) succeeded, done = the files copied before
\* a copyFile failed (all of them when nothing failed).
CopyFx(src) == {[mk |-> FALSE, done |-> {}]}
                 \cup {[mk |-> TRUE, done |-> S] : S \in SUBSET FilesOf(src)}

\* removeDirectory after its retries: ok, or the files it still managed to
\* unlink before the last attempt threw.
RmFx(d) == {[ok |-> TRUE, gone |-> {}]}
             \cup {[ok |-> FALSE, gone |-> S] : S \in SUBSET FilesOf(d)}

\* -------------------------------------------------------------- file moves
\* part_003:447-461
copyDirectory(src, dest, cp) ==
    IF ~cp.mk
    THEN [dir |-> dest, ok |-> FALSE]
    ELSE [dir |-> [ex |-> TRUE,
                   f |-> [x \in Files |-> IF x \in cp.done THEN src.f[x] ELSE dest.f[x]]],
          ok |-> cp.done = FilesOf(src)]

\* part_003:376-404
removeDirectory(d, rm) ==
    IF rm.ok
    THEN [dir |-> NoDir, ok |-> TRUE]
    ELSE [dir |-> [ex |-> TRUE, f |-> [x \in Files |-> IF x \in rm.gone THEN 0 ELSE d.f[x]]],
          ok |-> FALSE]

\* A fallback that deletes src and copies nothing.
copyThenDelete_DeleteOnly(src, fx) ==
    [src |-> NoDir, dest |-> NoDir, res |-> "ok", warned |-> FALSE]

\* part_003:422-440, the copy+delete strategy after a failed rename.
\* The catch block returns normally whenever dest exists.
copyThenDelete(src, fx) ==
    LET c == copyDirectory(src, NoDir, fx.cp)
        r == removeDirectory(src, fx.srcRm)
    IN  IF c.ok /\ r.ok
        THEN [src |-> NoDir, dest |-> c.dir, res |-> "ok", warned |-> FALSE]
        ELSE IF c.ok
        THEN [src |-> r.dir, dest |-> c.dir, res |-> "ok", warned |-> TRUE]
        ELSE IF c.dir.ex
        THEN [src |-> src, dest |-> c.dir, res |-> "ok", warned |-> TRUE]
        ELSE [src |-> src, dest |-> c.dir, res |-> "error", warned |-> FALSE]

\* part_003:409-442
safeMove(src, dest, fx) ==
    LET d0 == IF dest.ex THEN removeDirectory(dest, fx.destRm) ELSE [dir |-> NoDir, ok |-> TRUE]
    IN  IF ~d0.ok
        THEN [src |-> src, dest |-> d0.dir, res |-> "error", warned |-> FALSE]
        ELSE IF fx.ren
        THEN [src |-> NoDir, dest |-> src, res |-> "ok", warned |-> FALSE]
        ELSE copyThenDelete(src, fx)

\* The outcomes that decide a safeMove: the removal of an existing dest
\* fails, the rename succeeds, the copy fails, or the copy succeeds and the
\* removal of src succeeds or fails.
RmOk == [ok |-> TRUE, gone |-> {}]
MoveFx(src, dest) ==
    LET fx(dr, rn, c, sr) == [destRm |-> dr, ren |-> rn, cp |-> c, srcRm |-> sr]
        cpAll == [mk |-> TRUE, done |-> FilesOf(src)]
    IN  (IF dest.ex THEN {fx(dr, FALSE, cpAll, RmOk) : dr \in RmFx(dest) \ {RmOk}} ELSE {})
          \cup {fx(RmOk, TRUE, cpAll, RmOk)}
          \cup {fx(RmOk, FALSE, c, RmOk) : c \in CopyFx(src) \ {cpAll}}
          \cup {fx(RmOk, FALSE, cpAll, sr) : sr \in RmFx(src)}

Result(op, arg, res, warned, added, updated) ==
    [op |-> op, arg |-> arg, res |-> res, warned |-> warned, added |-> added, updated |-> updated]

\* part_003:324-347
enableSkill(n) ==
    LET src == disabled[n]
        dest == enabled[n]
    IN  IF ~src.ex \/ ~HasMarker(src)
        THEN /\ last' = Result("enableSkill", n, "error", FALSE, 0, 0)
             /\ UNCHANGED <<enabled, disabled, registry, checkout, remote, staleLog>>
        ELSE \E fx \in MoveFx(src, dest) :
               LET m == safeMove(src, dest, fx) IN
               /\ disabled' = [disabled EXCEPT ![n] = m.src]
               /\ enabled' = [enabled EXCEPT ![n] = m.dest]
               /\ staleLog' = IF m.warned THEN staleLog \cup {n} ELSE staleLog
               /\ last' = Result("enableSkill", n, m.res, m.warned, 0, 0)
               /\ UNCHANGED <<registry, checkout, remote>>

\* part_003:353-371
disableSkill(n) ==
    LET src == enabled[n]
        dest == disabled[n]
    IN  IF ~src.ex
        THEN /\ last' = Result("disableSkill", n, "error", FALSE, 0, 0)
             /\ UNCHANGED <<enabled, disabled, registry, checkout, remote, staleLog>>
        ELSE \E fx \in MoveFx(src, dest) :
               LET m == safeMove(src, dest, fx) IN
               /\ enabled' = [enabled EXCEPT ![n] = m.src]
               /\ disabled' = [disabled EXCEPT ![n] = m.dest]
               /\ staleLog' = IF m.warned THEN staleLog \cup {n} ELSE staleLog
               /\ last' = Result("disableSkill", n, m.res, m.warned, 0, 0)
               /\ UNCHANGED <<registry, checkout, remote>>

\* ---------------------------------------------------------------- sources
\* What a sync finds in the checkout of each repository: "children" = the
\* scan root holds package directories (skillNotes.ts:594-599), "single" =
\* the scan root is itself a package (skillNotes.ts:572-593).
RepoLayout(s) == IF s = "s1" THEN "children" ELSE "single"
RepoSkills(s) == IF s = "s1" THEN <<"p", "q">> ELSE <<"q">>

\* A package directory of a checkout at revision rev.
SrcPkg(rev) == [ex |-> TRUE, f |-> [x \in Files |-> IF x = META THEN 0 ELSE rev]]

\* skillNotes.ts:382-392
NewSource(id) ==
    [id |-> id, status |-> "pending", lastCommitHash |-> 0, skillCount |-> 0,
     hasUpdate |-> "unset", lastChecked |-> 0, enabled |-> TRUE, skillsPath |-> "."]

IndexOf(reg, id) ==
    IF \E i \in 1..Len(reg) : reg[i].id = id
    THEN CHOOSE i \in 1..Len(reg) : reg[i].id = id /\ \A j \in 1..(i - 1) : reg[j].id # id
    ELSE 0

\* The record of source id in the array.
NoRecord == [id |-> "none"]
RecordOf(reg, id) == IF IndexOf(reg, id) = 0 THEN NoRecord ELSE reg[IndexOf(reg, id)]

RemoveAt(reg, i) == SubSeq(reg, 1, i - 1) \o SubSeq(reg, i + 1, Len(reg))

\* A rollback that removes nothing.
removeSkillSource_Nothing(reg, co, id) == [reg |-> reg, co |-> co, ok |-> FALSE]

\* A removal that drops the record and keeps the checkout directory.
removeSkillSource_KeepCheckout(reg, co, id) ==
    LET i == IndexOf(reg, id) IN
    IF i = 0
    THEN [reg |-> reg, co |-> co, ok |-> FALSE]
    ELSE [reg |-> RemoveAt(reg, i), co |-> co, ok |-> TRUE]

\* skillNotes.ts:420-436
removeSkillSource(reg, co, id) ==
    LET i == IndexOf(reg, id) IN
    IF i = 0
    THEN [reg |-> reg, co |-> co, ok |-> FALSE]
    ELSE [reg |-> RemoveAt(reg, i), co |-> [co EXCEPT ![id] = 0], ok |-> TRUE]

\* skillNotes.ts:441-451 as syncSource calls it (skillNotes.ts:606-611)
updateSkillSource(reg, id, rev, count) ==
    LET i == IndexOf(reg, id) IN
    IF i = 0
    THEN [reg |-> reg, ok |-> FALSE]
    ELSE [reg |-> [reg EXCEPT ![i].lastCommitHash = rev, ![i].skillCount = count,
                              ![i].status = "synced"],
          ok |-> TRUE]

\* A directory under .sources that is not the result of a clone or a pull:
\* the work tree a failed pull left, or the directory sparseClone made before
\* its git commands ran.
Broken == -1

\* git clone: refuses a destination that exists, and removes what it wrote
\* when it fails.
gitClone(co, head, ok) ==
    IF co # 0 THEN [rev |-> co, ok |-> FALSE]
    ELSE IF ok THEN [rev |-> head, ok |-> TRUE]
    ELSE [rev |-> 0, ok |-> FALSE]

\* git pull: dirty = the failed pull left the work tree in a merge.
gitPull(co, head, git) ==
    IF git.pull THEN [rev |-> head, ok |-> TRUE]
    ELSE [rev |-> IF git.dirty THEN Broken ELSE co, ok |-> FALSE]

\* A removal that leaves the directory where it is.
rmCheckout_Skipped(co) == co

\* skillNotes.ts:492 and 171: fs.promises.rm(dir, {recursive, force})
rmCheckout(co) == 0

\* skillNotes.ts:144-174.  mkdir makes the directory; git.sparse = the
\* sparse-checkout commands all succeed (they fail in a directory that already
\* has a remote); the catch removes the directory and clones in full.
sparseCloneDir(co, head, git) ==
    LET made == IF co = 0 THEN Broken ELSE co IN
    IF git.sparse /\ co = 0
    THEN [rev |-> head, ok |-> TRUE]
    ELSE gitClone(rmCheckout(made), head, git.clone)

\* skillNotes.ts:476-500: clone when there is no checkout, else pull and, when
\* the pull fails, delete the checkout and clone.  rev = 0: no checkout left.
fetchCheckout(co, head, git, useSparseCheckout) ==
    LET clone(c) == IF useSparseCheckout THEN sparseCloneDir(c, head, git)
                    ELSE gitClone(c, head, git.clone)
        pulled == gitPull(co, head, git)
    IN  IF co = 0 THEN clone(co)
        ELSE IF pulled.ok THEN pulled
        ELSE clone(rmCheckout(pulled.rev))

\* skillNotes.ts:703-720
copySkillDirectory(srcDir, destDir, rev, cp) ==
    LET c == copyDirectory(srcDir, destDir, cp) IN
    IF c.ok THEN [dir |-> [c.dir EXCEPT !.f[META] = rev], ok |-> TRUE] ELSE c

\* An import that always writes to the enabled partition.
ImportToEnabled_Always(en, n) == TRUE

\* An import that never looks at the enabled partition.
ImportToEnabled_Never(en, n) == FALSE

\* skillNotes.ts:644 (and 556, 581): the import goes to the enabled copy
ImportToEnabled(en, n) == HasMarker(en[n])

\* A count that takes only an enabled copy for an existing package.
Existed_EnabledOnly(toEn, dis, n) == toEn

\* skillNotes.ts:644-655 (and 556-566, 581-591): the import overwrites
Existed(toEn, dis, n) == toEn \/ dis[n].ex

\* skillNotes.ts:634-660 (the same placement as 550-568 and 574-593)
RECURSIVE scanAndImportSkills(_, _, _, _, _)
scanAndImportSkills(skillDirs, en, dis, rev, cps) ==
    IF skillDirs = <<>>
    THEN [en |-> en, dis |-> dis, added |-> 0, updated |-> 0, ok |-> TRUE]
    ELSE LET n == Head(skillDirs)
             toEn == ImportToEnabled(en, n)
             existed == Existed(toEn, dis, n)
             c == copySkillDirectory(SrcPkg(rev), IF toEn THEN en[n] ELSE dis[n], rev, Head(cps))
             en1 == IF toEn THEN [en EXCEPT ![n] = c.dir] ELSE en
             dis1 == IF toEn THEN dis ELSE [dis EXCEPT ![n] = c.dir]
         IN  IF ~c.ok
             THEN [en |-> en1, dis |-> dis1, added |-> 0, updated |-> 0, ok |-> FALSE]
             ELSE LET r == scanAndImportSkills(Tail(skillDirs), en1, dis1, rev, Tail(cps)) IN
                  [r EXCEPT !.added = @ + (IF existed THEN 0 ELSE 1),
                            !.updated = @ + (IF existed THEN 1 ELSE 0)]

\* The outcomes that decide an import of k package directories: every copy
\* succeeds, or the copies before the j-th succeed and the j-th fails (at its
\* mkdir, or at its first copyFile).
CpAll == [mk |-> TRUE, done |-> {MARKER}]
CpFail == {[mk |-> FALSE, done |-> {}], [mk |-> TRUE, done |-> {}]}
ImportFx(k) ==
    {[i \in 1..k |-> CpAll]}
      \cup {[i \in 1..k |-> IF i = j THEN c ELSE CpAll] : j \in 1..k, c \in CpFail}

\* git: the pull (of an existing checkout) and the clone succeed or fail;
\* dirty = a failed pull leaves a merge behind, sparse = the sparse-checkout
\* commands succeed, hash = git rev-parse HEAD answers (skillNotes.ts:725-732).
GitOutcome(clone, pull) ==
    [clone |-> clone, pull |-> pull, dirty |-> TRUE, sparse |-> TRUE, hash |-> TRUE]

\* The outcomes that decide a sync of a source without a subpath whose
\* revision can be read.
GitFx == {GitOutcome(TRUE, TRUE), GitOutcome(TRUE, FALSE), GitOutcome(FALSE, FALSE)}

SyncFx(s) == [git : GitFx, cps : ImportFx(Len(RepoSkills(s)))]

\* Every outcome of the git commands of a sync.
GitFxAll == [clone : BOOLEAN, pull : BOOLEAN, dirty : BOOLEAN, sparse : BOOLEAN,
             hash : BOOLEAN]

\* A failed copy ends the sync before the hash is read, and the fetch ends
\* with the head checked out or with no checkout whichever commands failed:
\* the outcomes of SyncFx, and every git outcome with every copy succeeding,
\* give every result a sync can have.
SyncFxAll(s) ==
    SyncFx(s) \cup {[git |-> g, cps |-> [i \in 1..Len(RepoSkills(s)) |-> CpAll]] : g \in GitFxAll}

\* skillNotes.ts:474
useSparseCheckout(source) == source.id # "none" /\ source.skillsPath # "."

\* A hash that is always the one of the first revision.
getGitCommitHash_First(rev, ok) == 1

\* skillNotes.ts:725-732 with the "|| undefined" of 608: 0 = no hash
getGitCommitHash(rev, ok) == IF ok THEN rev ELSE 0

\* skillNotes.ts:461-614
syncSource(s, reg, en, dis, co, fx) ==
    LET g == fetchCheckout(co[s], remote[s], fx.git, useSparseCheckout(RecordOf(reg, s)))
        co1 == [co EXCEPT ![s] = g.rev]
        imp == scanAndImportSkills(RepoSkills(s), en, dis, g.rev, fx.cps)
        commitHash == getGitCommitHash(g.rev, fx.git.hash)
        u == updateSkillSource(reg, s, commitHash, imp.added + imp.updated)
    IN  IF ~g.ok
        THEN [reg |-> reg, en |-> en, dis |-> dis, co |-> co1, ok |-> FALSE,
              added |-> 0, updated |-> 0]
        ELSE IF ~imp.ok \/ ~u.ok
        THEN [reg |-> reg, en |-> imp.en, dis |-> imp.dis, co |-> co1, ok |-> FALSE,
              added |-> 0, updated |-> 0]
        ELSE [reg |-> u.reg, en |-> imp.en, dis |-> imp.dis, co |-> co1, ok |-> TRUE,
              added |-> imp.added, updated |-> imp.updated]

\* The outcomes a sync is checked under: all of them, or those of SyncFx.
OutcomesOf(s, anyGit) == IF anyGit THEN SyncFxAll(s) ELSE SyncFx(s)

\* part_002:1302-1322 calling skillNotes.ts:461: sync of a registered source
SyncSourceUnder(s, anyGit) ==
    /\ IndexOf(registry, s) # 0
    /\ \E fx \in OutcomesOf(s, anyGit) :
         LET r == syncSource(s, registry, enabled, disabled, checkout, fx) IN
         /\ registry' = r.reg
         /\ enabled' = r.en
         /\ disabled' = r.dis
         /\ checkout' = r.co
         /\ last' = Result("syncSource", s, IF r.ok THEN "ok" ELSE "error", FALSE,
                           r.added, r.updated)
         /\ UNCHANGED <<remote, staleLog>>

SyncSource(s) == SyncSourceUnder(s, FALSE)

\* The forms of URL the user may type for the repository with id s:
\* ".../owner/repo/tree/branch", ".../owner/repo" (with or without ".git"),
\* "owner/repo", and text that none of the three patterns matches.
UrlForms == {"tree", "simple", "short"}
GitHubUrl(form, s) == [form |-> form, repo |-> s]

\* ".../owner/repo/tree/branch/subpath"
SubpathUrl(s) == [form |-> "subpath", repo |-> s]
BadUrl == [form |-> "invalid", repo |-> "bad"]
Urls(S) == {GitHubUrl(f, s) : f \in UrlForms, s \in S} \cup {BadUrl}

\* skillNotes.ts:332-363 with the id of skillNotes.ts:375: the three forms
\* give the same owner and repo, anything else is null.
parseGitHubUrl(url) == IF url.form \in UrlForms \cup {"subpath"} THEN url.repo ELSE "null"

\* skillNotes.ts:343 and 387: parsed.subpath || options.skillsPath || '.'
SkillsPathOf(url) == IF url.form = "subpath" THEN "subpath" ELSE "."

\* A duplicate test that finds no record.
Registered_Never(reg, id) == FALSE

\* skillNotes.ts:378: sources.find(s => s.id === id)
Registered(reg, id) == IndexOf(reg, id) # 0

\* skillNotes.ts:368-415.  The call throws "invalidUrl", "exists", or the
\* error of the initial sync.
addSkillSourceUnder(url, anyGit) ==
    LET id == parseGitHubUrl(url)
        newSource == [NewSource(id) EXCEPT !.skillsPath = SkillsPathOf(url)]
    IN
    IF id \notin SrcIds \/ Registered(registry, id)
    THEN /\ last' = Result("addSkillSource", url.repo,
                           IF id \notin SrcIds THEN "invalidUrl" ELSE "exists", FALSE, 0, 0)
         /\ UNCHANGED <<enabled, disabled, registry, checkout, remote, staleLog>>
    ELSE \E fx \in OutcomesOf(id, anyGit) :
           LET r == syncSource(id, Append(registry, newSource), enabled, disabled,
                               checkout, fx)
               rb == removeSkillSource(r.reg, r.co, id)
           IN  /\ registry' = IF r.ok THEN r.reg ELSE rb.reg
               /\ checkout' = IF r.ok THEN r.co ELSE rb.co
               /\ enabled' = r.en
               /\ disabled' = r.dis
               /\ last' = Result("addSkillSource", url.repo, IF r.ok THEN "ok" ELSE "syncError",
                                 FALSE, r.added, r.updated)
               /\ UNCHANGED <<remote, staleLog>>

addSkillSource(url) == addSkillSourceUnder(url, FALSE)

\* part_002:1284-1300 calling skillNotes.ts:420
RemoveSkillSource(s) ==
    LET rb == removeSkillSource(registry, checkout, s) IN
    /\ registry' = rb.reg
    /\ checkout' = rb.co
    /\ last' = Result("removeSkillSource", s, IF rb.ok THEN "ok" ELSE "error", FALSE, 0, 0)
    /\ UNCHANGED <<enabled, disabled, remote, staleLog>>

\* Someone pushes to the remote branch.
RemotePush(s) ==
    /\ remote[s] < MaxRev
    /\ remote' = [remote EXCEPT ![s] = @ + 1]
    /\ last' = Result("push", s, "ok", FALSE, 0, 0)
    /\ UNCHANGED <<enabled, disabled, registry, checkout, staleLog>>

\* ------------------------------------------------------------ marketplace
\* An install that never looks at the enabled partition.
InstallToEnabled_Never(en, n) == FALSE

\* skillMarketplace.ts:354 and 373: fs.existsSync(enabledSkillPath)
InstallToEnabled(en, n) == en[n].ex

\* skillMarketplace.ts:354-360 and 373-379: the copy goes to the enabled
\* directory when one exists, else to the disabled one
RECURSIVE installSkills(_, _, _, _, _)
installSkills(skillDirs, en, dis, v, cps) ==
    IF skillDirs = <<>>
    THEN [en |-> en, dis |-> dis, ok |-> TRUE]
    ELSE LET n == Head(skillDirs)
             toEn == InstallToEnabled(en, n)
             c == copyDirectory(SrcPkg(v), IF toEn THEN en[n] ELSE dis[n], Head(cps))
             en1 == IF toEn THEN [en EXCEPT ![n] = c.dir] ELSE en
             dis1 == IF toEn THEN dis ELSE [dis EXCEPT ![n] = c.dir]
         IN  IF ~c.ok
             THEN [en |-> en1, dis |-> dis1, ok |-> FALSE]
             ELSE installSkills(Tail(skillDirs), en1, dis1, v, Tail(cps))

\* skillMarketplace.ts:285-414: the marketplace entry names the GitHub
\* repository s; its head is cloned to a temporary directory and the package
\* directories found there are copied into the warehouse.
installMarketplaceSkill(s) ==
    \E cloned \in BOOLEAN, cps \in ImportFx(Len(RepoSkills(s))) :
      LET r == installSkills(RepoSkills(s), enabled, disabled, remote[s], cps) IN
      /\ enabled' = IF cloned THEN r.en ELSE enabled
      /\ disabled' = IF cloned THEN r.dis ELSE disabled
      /\ last' = Result("installMarketplaceSkill", s,
                        IF cloned /\ r.ok THEN "ok" ELSE "error", FALSE, 0, 0)
      /\ UNCHANGED <<registry, checkout, remote, staleLog>>

\* ------------------------------------------------------------- tool links
\* part_004:27-64: the tools and their candidate skills paths
ToolIds == {"claude", "opencode"}

\* A table in which every tool has the skills path of the first one.
GlobalPath_Shared(t) == <<".claude/skills">>

GlobalPath(t) ==
    IF t = "claude" THEN <<".claude/skills">> ELSE <<".config/opencode/skill", ".opencode/skill">>
Paths == {".claude/skills", ".config/opencode/skill", ".opencode/skill"}

\* part_004:27-64: the root directories whose presence means "installed"
RootPath(t) == IF t = "claude" THEN <<".claude">> ELSE <<".config/opencode", ".opencode">>
Roots == {".claude", ".config/opencode", ".opencode"}

\* path.dirname of a skills path
ParentDir(p) ==
    CASE p = ".claude/skills" -> ".claude"
      [] p = ".config/opencode/skill" -> ".config/opencode"
      [] p = ".opencode/skill" -> ".opencode"

\* Entries of a directory: k = "none" | "file" | "dir" | "link", v = content.
EntryNames == {"a", "b"}
NoEntry == [k |-> "none", v |-> "none"]
ToolV == "tool"
WarehouseV == "warehouse"
NoEntries == [x \in EntryNames |-> NoEntry]

\* What lies at a path: nothing, an ordinary directory with entries e, or a
\* directory link (symlink / junction) to "W" (the warehouse), to "X" (some
\* other directory) or to "gone" (a directory that no longer exists).
Absent == [t |-> "absent", e |-> NoEntries, to |-> "none"]
DirNode(e) == [t |-> "dir", e |-> e, to |-> "none"]
LinkNode(to) == [t |-> "link", e |-> NoEntries, to |-> to]

\* fs.existsSync follows links
ExistsSync(nd, w) ==
    \/ nd.t = "dir"
    \/ nd.t = "link" /\ (nd.to = "X" \/ (nd.to = "W" /\ w.ex))

\* A merge that copies over whatever the destination holds.
copyDirectoryContents_Overwrite(src, dest, done) ==
    [e |-> [x \in EntryNames |->
              IF x \in done /\ src[x].k \in {"dir", "file"} THEN src[x] ELSE dest[x]],
     ok |-> done = EntryNames]

\* part_004:264-285: done = the entries handled before a copy failed
copyDirectoryContents(src, dest, done) ==
    [e |-> [x \in EntryNames |->
              IF dest[x].k # "none" \/ x \notin done THEN dest[x]
              ELSE IF src[x].k \in {"dir", "file"} THEN src[x]
              ELSE dest[x]],
     ok |-> done = EntryNames]

CopyDone == {{}, {"a"}, EntryNames}

\* How a command that removes a directory link can end: "removed", "failed"
\* (it throws), "stale" (it returns but the link is still there: the handle
\* is held by another program), and for a recursive delete of a junction
\* "through" (the link is removed together with the contents of its target).
GentleRm == {"removed", "failed", "stale"}
RecursiveRm == {"removed", "failed", "stale", "through"}

\* A removal that leaves the old link where it is.
removeOldLink_Skipped(plat, nd, w, r1, r2) == [node |-> nd, wh |-> w]

\* part_004:224-240: removal of the old link.  r1 = rmdir / unlink,
\* r2 = rmdir /s /q (win32 only); fs.promises.rm removes the link itself.
removeOldLink(plat, nd, w, r1, r2) ==
    IF r1 # "failed"
    THEN [node |-> IF r1 = "removed" THEN Absent ELSE nd, wh |-> w]
    ELSE IF plat = "win32" /\ r2 # "failed"
    THEN [node |-> IF r2 = "stale" THEN nd ELSE Absent,
          wh |-> IF r2 = "through" /\ nd.to = "W" THEN [w EXCEPT !.e = NoEntries] ELSE w]
    ELSE [node |-> Absent, wh |-> w]

\* What the operating system may do during one linkTool call: the outcome of
\* the first removal command, of the win32 fallback command if it runs, and
\* how far the merge got.
LinkFx(plat, nd) ==
    {fx \in [r1 : GentleRm, r2 : RecursiveRm, done : CopyDone] :
        /\ nd.t = "link" \/ fx.r1 = "removed"
        /\ (nd.t = "link" /\ plat = "win32" /\ fx.r1 = "failed") \/ fx.r2 = "removed"
        /\ nd.t = "dir" \/ fx.done = EntryNames}

\* A symlink call whose EEXIST is swallowed.
symlink_Swallowed(nd) ==
    [node |-> IF nd.t = "absent" THEN LinkNode("W") ELSE nd, ok |-> TRUE]

\* part_004:252: fs.promises.symlink(warehousePath, targetPath) fails with
\* EEXIST when something is still at targetPath
symlink(nd) ==
    IF nd.t = "absent" THEN [node |-> LinkNode("W"), ok |-> TRUE] ELSE [node |-> nd, ok |-> FALSE]

\* part_004:183-259
linkToolWith(toolId, fx) ==
      LET targetPath == GlobalPath(toolId)[1]
          nd == node[targetPath]
          r1 == fx.r1
          r2 == fx.r2
          done == fx.done
          w0 == [wh EXCEPT !.ex = TRUE]
          rmv == removeOldLink(platform, nd, w0, r1, r2)
          mrg == copyDirectoryContents(nd.e, w0.e, done)
          nd1 == IF ~ExistsSync(nd, w0) THEN nd
                 ELSE IF nd.t = "link" THEN rmv.node
                 ELSE IF mrg.ok THEN Absent ELSE nd
          w1 == IF ~ExistsSync(nd, w0) THEN w0
                ELSE IF nd.t = "link" THEN rmv.wh
                ELSE [w0 EXCEPT !.e = mrg.e]
          threw == ExistsSync(nd, w0) /\ nd.t = "dir" /\ ~mrg.ok
          lnk == symlink(nd1)
      IN  /\ node' = [node EXCEPT ![targetPath] = IF threw THEN nd1 ELSE lnk.node]
          /\ wh' = w1
          /\ root' = [root EXCEPT ![ParentDir(targetPath)] = TRUE]
          /\ last' = Result("linkTool", toolId, IF ~threw /\ lnk.ok THEN "ok" ELSE "error",
                            FALSE, 0, 0)
          /\ UNCHANGED <<platform, hubVars, extVars>>

linkTool(toolId) ==
    \E fx \in LinkFx(platform, node[GlobalPath(toolId)[1]]) : linkToolWith(toolId, fx)

\* The operating system refuses nothing.
NoFault == [r1 |-> "removed", r2 |-> "removed", done |-> EntryNames]

\* part_004:300-324: the first candidate path at which lstat finds something
RECURSIVE FirstPresent(_, _)
FirstPresent(paths, nodes) ==
    IF paths = <<>> THEN ""
    ELSE IF nodes[Head(paths)].t # "absent" THEN Head(paths)
    ELSE FirstPresent(Tail(paths), nodes)

UnlinkTarget(toolId, nodes) ==
    IF FirstPresent(GlobalPath(toolId), nodes) # ""
    THEN FirstPresent(GlobalPath(toolId), nodes)
    ELSE GlobalPath(toolId)[1]

\* A test that takes whatever lies at the path for a link.
isSymbolicLink_Any(nd) == nd.t # "absent"

\* part_004:333-339: lstat and stats.isSymbolicLink()
isSymbolicLink(nd) == nd.t = "link"

\* No second look at the path.
LinkStillThere_Unchecked(nd) == FALSE

\* part_004:353-367: after the removal the path is looked at again
LinkStillThere(nd) == nd.t = "link"

\* What the operating system may do during one unlinkTool call.
UnlinkFx(nd, syncBack) ==
    {fx \in [r1 : GentleRm, done : CopyDone] :
        /\ nd.t = "link" \/ fx.r1 = "removed"
        /\ (nd.t = "link" /\ fx.r1 = "removed" /\ syncBack) \/ fx.done = EntryNames}

\* part_004:291-390
unlinkTool(toolId, syncBack) ==
    \E fx \in UnlinkFx(node[UnlinkTarget(toolId, node)], syncBack) :
      LET targetPath == UnlinkTarget(toolId, node)
          nd == node[targetPath]
          r1 == fx.r1
          done == fx.done
          nd1 == IF r1 = "removed" THEN Absent ELSE nd
          stopped == r1 = "failed" \/ LinkStillThere(nd1)
          snap == copyDirectoryContents(wh.e, NoEntries, done)
          copies == ~ExistsSync(nd1, wh) /\ syncBack /\ wh.ex
          nd2 == IF ExistsSync(nd1, wh) THEN nd1
                 ELSE IF copies THEN DirNode(snap.e) ELSE DirNode(NoEntries)
      IN  IF ~isSymbolicLink(nd)
          THEN /\ last' = Result("unlinkTool", toolId, "notLinked", FALSE, 0, 0)
               /\ UNCHANGED <<hubVars, linkVars, extVars>>
          ELSE /\ node' = [node EXCEPT ![targetPath] = IF stopped THEN nd1 ELSE nd2]
               /\ last' = Result("unlinkTool", toolId,
                                 IF stopped \/ (copies /\ ~snap.ok) THEN "error" ELSE "ok",
                                 FALSE, 0, 0)
               /\ UNCHANGED <<platform, wh, root, hubVars, extVars>>

\* ------------------------------------------------------------------- Init
\* Before any tool is linked: no warehouse directory, nothing at the tools'
\* skills paths.
NoLinks ==
    /\ platform = "posix"
    /\ node = [p \in Paths |-> Absent]
    /\ wh = [ex |-> FALSE, e |-> NoEntries]
    /\ root = [r \in Roots |-> FALSE]

\* Every name starts absent, as an enabled package, as a disabled package,
\* or as a directory without SKILL.md in the disabled partition.
Init ==
    /\ \E place \in [Names -> {"none", "enabled", "disabled", "nomarker"}] :
         /\ enabled = [n \in Names |-> IF place[n] = "enabled" THEN LocalPkg ELSE NoDir]
         /\ disabled = [n \in Names |->
                          CASE place[n] = "disabled" -> LocalPkg
                            [] place[n] = "nomarker" -> EmptyDir
                            [] OTHER -> NoDir]
    /\ registry = <<>>
    /\ checkout = [s \in SrcIds |-> 0]
    /\ remote = [s \in SrcIds |-> 1]
    /\ staleLog = {}
    /\ NoLinks
    /\ sparse = NoSparse
    /\ proc = NoProcs
    /\ last = Result("init", "", "ok", FALSE, 0, 0)

\* The warehouse: packages are toggled, imported from the source s1 and
\* installed from the marketplace.
HubSrc == {"s1"}
Next ==
    \/ \E n \in Names : enableSkill(n) /\ UNCHANGED <<linkVars, extVars>>
    \/ \E n \in Names : disableSkill(n) /\ UNCHANGED <<linkVars, extVars>>
    \/ \E s \in HubSrc : SyncSource(s) /\ UNCHANGED <<linkVars, extVars>>
    \/ \E u \in {GitHubUrl("simple", s) : s \in HubSrc} \cup {BadUrl} :
         addSkillSource(u) /\ UNCHANGED <<linkVars, extVars>>
    \/ \E s \in SrcIds : installMarketplaceSkill(s) /\ UNCHANGED <<linkVars, extVars>>

Spec == Init /\ [][Next]_vars

\* safeMove alone: packages are only toggled.
NextMove ==
    \/ \E n \in Names : enableSkill(n) /\ UNCHANGED <<linkVars, extVars>>
    \/ \E n \in Names : disableSkill(n) /\ UNCHANGED <<linkVars, extVars>>

SpecMove == Init /\ [][NextMove]_vars

\* The source registry: two sources are added, synced and removed while
\* their remotes move on.
NextSources ==
    \/ \E s \in SrcIds : SyncSource(s) /\ UNCHANGED <<linkVars, extVars>>
    \/ \E u \in Urls(SrcIds) : addSkillSource(u) /\ UNCHANGED <<linkVars, extVars>>
    \/ \E s \in SrcIds : RemoveSkillSource(s) /\ UNCHANGED <<linkVars, extVars>>
    \/ \E s \in SrcIds : RemotePush(s) /\ UNCHANGED <<linkVars, extVars>>

SpecSources == Init /\ [][NextSources]_vars

\* Tool links.  The warehouse holds any entries; each tool's default path
\* is absent, an ordinary directory with any entries, or a link.
WarehouseEntry == {NoEntry, [k |-> "file", v |-> WarehouseV]}
ToolEntry == {NoEntry, [k |-> "file", v |-> ToolV], [k |-> "link", v |-> ToolV]}
InitNodes == {Absent} \cup {LinkNode(to) : to \in {"W", "X", "gone"}}
               \cup {DirNode(e) : e \in [EntryNames -> ToolEntry]}

InitLink ==
    /\ enabled = [n \in Names |-> NoDir]
    /\ disabled = [n \in Names |-> NoDir]
    /\ registry = <<>>
    /\ checkout = [s \in SrcIds |-> 0]
    /\ remote = [s \in SrcIds |-> 1]
    /\ staleLog = {}
    /\ platform \in {"win32", "posix"}
    /\ wh \in {[ex |-> FALSE, e |-> NoEntries]}
                \cup {[ex |-> TRUE, e |-> e] : e \in [EntryNames -> WarehouseEntry]}
    /\ \E n1 \in InitNodes, n2 \in InitNodes, n3 \in InitNodes :
         /\ n2 = Absent \/ n3 = Absent
         /\ n3.t # "dir"
         /\ node = [p \in Paths |-> IF p = GlobalPath("claude")[1] THEN n1
                                    ELSE IF p = GlobalPath("opencode")[1] THEN n2
                                    ELSE n3]
    /\ root = [r \in Roots |-> TRUE]
    /\ sparse = NoSparse
    /\ proc = NoProcs
    /\ last = Result("init", "", "ok", FALSE, 0, 0)

NextLink ==
    \/ \E t \in ToolIds : linkTool(t)
    \/ \E t \in ToolIds, syncBack \in BOOLEAN : unlinkTool(t, syncBack)

SpecLink == InitLink /\ [][NextLink]_vars

\* ------------------------------------------------------------- tool status
\* part_004:107-118: the first candidate path that lstat shows as a directory
\* or a link
RECURSIVE FirstDirOrLink(_, _)
FirstDirOrLink(paths, nodes) ==
    IF paths = <<>> THEN ""
    ELSE IF nodes[Head(paths)].t \in {"dir", "link"} THEN Head(paths)
    ELSE FirstDirOrLink(Tail(paths), nodes)

\* part_004:136-140: stats.isSymbolicLink()
IsLinked(nd) == nd.t = "link"

\* part_004:83-175 for one tool; mk = the mkdir of a missing skills folder
\* succeeds.  The answer, whether the mkdir was called (wanted) and what it
\* left on disk (made).
detectTool(t, nodes, roots, mk) ==
    LET isInstalled == \E i \in 1..Len(RootPath(t)) : roots[RootPath(t)[i]]
        found == FirstDirOrLink(GlobalPath(t), nodes)
        create == isInstalled /\ found = "" /\ mk
        detectedSkillsPath == IF ~isInstalled THEN ""
                              ELSE IF found # "" THEN found
                              ELSE IF mk THEN GlobalPath(t)[1] ELSE ""
        nd == IF detectedSkillsPath = "" THEN Absent
              ELSE IF create THEN DirNode(NoEntries)
              ELSE nodes[detectedSkillsPath]
    IN  [status |-> [isInstalled |-> isInstalled,
                     isLinked |-> detectedSkillsPath # "" /\ IsLinked(nd),
                     linkTarget |-> IF detectedSkillsPath # "" /\ IsLinked(nd) THEN nd.to
                                    ELSE "none",
                     currentPath |-> IF detectedSkillsPath # "" THEN detectedSkillsPath
                                     ELSE GlobalPath(t)[1]],
         wanted |-> isInstalled /\ found = "",
         made |-> IF create THEN {GlobalPath(t)[1]} ELSE {}]

\* part_004:76-178 as the panel's _refresh calls it (part_002:1209-1213)
detectTools ==
    \E mk \in [ToolIds -> BOOLEAN] :
      LET d == [t \in ToolIds |-> detectTool(t, node, root, mk[t])]
          made == UNION {d[t].made : t \in ToolIds}
      IN  /\ \A t \in ToolIds : mk[t] \/ d[t].wanted
          /\ node' = [p \in Paths |-> IF p \in made THEN DirNode(NoEntries) ELSE node[p]]
          /\ root' = [r \in Roots |-> root[r] \/ \E p \in made : ParentDir(p) = r]
          /\ last' = [op |-> "detectTools", arg |-> "", res |-> "ok", warned |-> FALSE,
                       added |-> 0, updated |-> 0,
                       status |-> [t \in ToolIds |-> d[t].status]]
          /\ UNCHANGED <<platform, wh, hubVars, extVars>>

\* Something outside the link manager adds an entry to the warehouse or
\* removes one.
AnyEntry == {NoEntry, [k |-> "file", v |-> WarehouseV], [k |-> "link", v |-> WarehouseV]}
WarehouseWrite ==
    \E x \in EntryNames, e \in AnyEntry :
      /\ wh.ex
      /\ wh.e[x] # e
      /\ wh' = [wh EXCEPT !.e[x] = e]
      /\ last' = Result("warehouseWrite", x, "ok", FALSE, 0, 0)
      /\ UNCHANGED <<platform, node, root, hubVars, extVars>>

\* The tools are installed or not; a skills path is absent, a link or an
\* ordinary directory; the warehouse holds files and links.
DetectNodes == {Absent, LinkNode("W"), LinkNode("X"), DirNode(NoEntries),
                DirNode([x \in EntryNames |-> IF x = "a" THEN [k |-> "file", v |-> ToolV]
                                                ELSE NoEntry])}

InitDetect ==
    /\ enabled = [n \in Names |-> NoDir]
    /\ disabled = [n \in Names |-> NoDir]
    /\ registry = <<>>
    /\ checkout = [s \in SrcIds |-> 0]
    /\ remote = [s \in SrcIds |-> 1]
    /\ staleLog = {}
    /\ platform = "posix"
    /\ wh \in {[ex |-> FALSE, e |-> NoEntries]}
                \cup {[ex |-> TRUE, e |-> e] : e \in [EntryNames -> AnyEntry]}
    /\ \E n1 \in DetectNodes, n2 \in {Absent, LinkNode("W"), DirNode(NoEntries)},
          n3 \in {Absent, LinkNode("W")} :
         /\ n2 = Absent \/ n3 = Absent
         /\ node = [p \in Paths |-> IF p = GlobalPath("claude")[1] THEN n1
                                    ELSE IF p = GlobalPath("opencode")[1] THEN n2
                                    ELSE n3]
    /\ root \in [Roots -> BOOLEAN]
    /\ \A p \in Paths : node[p] # Absent => root[ParentDir(p)]
    /\ sparse = NoSparse
    /\ proc = NoProcs
    /\ last = Result("init", "", "ok", FALSE, 0, 0)

NextDetect ==
    \/ \E t \in ToolIds : linkTool(t)
    \/ \E t \in ToolIds, syncBack \in BOOLEAN : unlinkTool(t, syncBack)
    \/ detectTools
    \/ WarehouseWrite

SpecDetect == InitDetect /\ [][NextDetect]_vars

\* -------------------------------------------------------- sparse checkout
\* Paths inside a repository are sequences of segments.  The repository has
\* no SKILL.md at its root; its entries are the configured subpath
\* skills/link, its sibling skills/shared-skill and shared-skill at the root.
Skills == <<"skills">>
Subpath == <<"skills", "link">>
Beside == <<"skills", "shared-skill">>
Target == <<"shared-skill">>
RepoPaths == {Subpath, Beside, Target}

\* The text of a file, as path segments: "../shared-skill", "./shared-skill",
\* "shared-skill", "../../shared-skill".
LinkTexts == {<<"..", "shared-skill">>, <<".", "shared-skill">>, <<"shared-skill">>,
              <<"..", "..", "shared-skill">>}

\* An entry: nothing, a directory, a directory holding SKILL.md, or a file
\* (small = under 200 bytes).
NoPath == [k |-> "none", text |-> <<>>, small |-> FALSE]
PlainDir == [k |-> "dir", text |-> <<>>, small |-> FALSE]
PkgDir == [k |-> "pkg", text |-> <<>>, small |-> FALSE]
FileEntries == [k : {"file"}, text : LinkTexts, small : BOOLEAN]

IsPrefix(a, b) == Len(a) <= Len(b) /\ SubSeq(b, 1, Len(a)) = a

\* fs.existsSync / fs.promises.stat of a path of the checkout
At(tree, p) ==
    IF p \in RepoPaths THEN tree[p]
    ELSE IF p = <<>> THEN PlainDir
    ELSE IF p = Skills /\ (tree[Subpath].k # "none" \/ tree[Beside].k # "none") THEN PlainDir
    ELSE NoPath

\* A path.dirname that returns the path itself.
dirname_Self(p) == p

\* path.dirname
dirname(p) == IF Len(p) <= 1 THEN <<>> ELSE SubSeq(p, 1, Len(p) - 1)

\* path.basename
basename(p) == p[Len(p)]

\* path.normalize of a joined path: "." is dropped, ".." removes the segment
\* before it
RECURSIVE NormalizeFrom(_, _)
NormalizeFrom(done, rest) ==
    IF rest = <<>> THEN done
    ELSE IF Head(rest) = "." THEN NormalizeFrom(done, Tail(rest))
    ELSE IF Head(rest) = ".." /\ done # <<>> /\ done[Len(done)] # ".."
    THEN NormalizeFrom(SubSeq(done, 1, Len(done) - 1), Tail(rest))
    ELSE NormalizeFrom(Append(done, Head(rest)), Tail(rest))

normalize(p) == NormalizeFrom(<<>>, p)

\* content.match(/^\.\.?\//)
LooksLikeLink(e) == e.k = "file" /\ e.small /\ Head(e.text) \in {".", ".."}

\* skillNotes.ts:181-248: the paths to add to the sparse-checkout set
handleSymlinksInSparseCheckout(tree, sparseDir) ==
    LET e == At(tree, sparseDir) IN
    IF e.k = "file"
    THEN (IF LooksLikeLink(e) THEN {normalize(dirname(sparseDir) \o e.text)} ELSE {})
    ELSE IF e.k \in {"dir", "pkg"}
    THEN {normalize(sparseDir \o tree[c].text) :
            c \in {c \in RepoPaths : dirname(c) = sparseDir /\ LooksLikeLink(tree[c])}}
    ELSE {}

\* The part of the repository the checkout holds.
Checkout(repo, have) == [p \in RepoPaths |-> IF p \in have THEN repo[p] ELSE NoPath]

Under(paths) == {p \in RepoPaths : \E a \in paths : IsPrefix(a, p)}

\* skillNotes.ts:144-174: how = "sparse" (the link targets are added or the
\* add fails), "full" (sparse checkout failed, full clone), "fail"
sparseClone ==
    /\ sparse.phase = "remote"
    /\ \E how \in {"sparse", "full", "fail"}, addOk \in BOOLEAN :
         LET first == Under({sparse.skillsPath})
             more == handleSymlinksInSparseCheckout(Checkout(sparse.repo, first),
                                                    sparse.skillsPath)
             have == IF how = "full" THEN RepoPaths
                     ELSE IF addOk THEN first \cup Under(more) ELSE first
         IN  /\ how = "sparse" \/ addOk
             /\ sparse' = IF how = "fail" THEN [sparse EXCEPT !.phase = "failed"]
                          ELSE [sparse EXCEPT !.phase = "cloned", !.have = have]
             /\ last' = Result("sparseClone", "", IF how = "fail" THEN "error" ELSE "ok",
                               FALSE, 0, 0)
    /\ UNCHANGED <<hubVars, linkVars, proc>>

\* skillNotes.ts:513-517
possiblePaths == <<<<"skills">>, <<".claude", "skills">>, <<".agent", "skills">>>>

\* skillNotes.ts:506-544: the directory the scan starts from
ScanRoot(tree, skillsPath) ==
    LET there == {i \in 1..Len(possiblePaths) : At(tree, possiblePaths[i]).k # "none"}
        s1 == IF At(tree, skillsPath).k = "none" /\ there # {}
              THEN possiblePaths[CHOOSE i \in there : \A j \in there : i <= j]
              ELSE skillsPath
        resolvedPath == normalize(dirname(s1) \o At(tree, s1).text)
    IN  IF LooksLikeLink(At(tree, s1)) /\ At(tree, resolvedPath).k # "none"
        THEN resolvedPath
        ELSE s1

\* skillNotes.ts:570-600 with findAllSkillDirectories (668-698): the package
\* directories that are imported, each under its base name
Discover(tree, scanRoot) ==
    IF At(tree, scanRoot).k = "pkg"
    THEN {[name |-> basename(scanRoot), from |-> scanRoot]}
    ELSE IF At(tree, scanRoot).k = "dir"
    THEN {[name |-> basename(c), from |-> c] :
            c \in {c \in RepoPaths : dirname(c) = scanRoot /\ tree[c].k = "pkg"}}
    ELSE {}

\* skillNotes.ts:502-600: the scan of a sync
scanCheckout ==
    /\ sparse.phase = "cloned"
    /\ LET tree == Checkout(sparse.repo, sparse.have)
           found == Discover(tree, ScanRoot(tree, sparse.skillsPath))
       IN  /\ sparse' = [sparse EXCEPT !.phase = "synced", !.found = found]
           /\ last' = Result("syncSource", "", "ok", FALSE, Cardinality(found), 0)
    /\ UNCHANGED <<hubVars, linkVars, proc>>

InitSparse ==
    /\ enabled = [n \in Names |-> NoDir]
    /\ disabled = [n \in Names |-> NoDir]
    /\ registry = <<>>
    /\ checkout = [s \in SrcIds |-> 0]
    /\ remote = [s \in SrcIds |-> 1]
    /\ staleLog = {}
    /\ NoLinks
    /\ proc = NoProcs
    /\ \E sub \in {NoPath, PlainDir, PkgDir} \cup FileEntries,
          bes \in {NoPath, PlainDir, PkgDir}, tgt \in {NoPath, PlainDir, PkgDir},
          sp \in {Subpath, Skills} :
         sparse = [phase |-> "remote",
                   repo |-> [p \in RepoPaths |-> IF p = Subpath THEN sub
                                                 ELSE IF p = Beside THEN bes ELSE tgt],
                   skillsPath |-> sp, have |-> {}, found |-> {}]
    /\ last = Result("init", "", "ok", FALSE, 0, 0)

NextSparse ==
    \/ sparseClone
    \/ scanCheckout

SpecSparse == InitSparse /\ [][NextSparse]_vars

\* ------------------------------------------------- update check, registry
\* skillNotes.ts:760-788: lsRemote = the remote query succeeded.  The local
\* side of the comparison is the checkout's HEAD.
checkForUpdates(co, head, lsRemote) ==
    IF co = 0 THEN TRUE
    ELSE IF ~lsRemote THEN FALSE
    ELSE head # co

\* A check that also marks the records it looked at as synced to the head.
CheckedSources_Resynced(sources, co, heads, q) ==
    [i \in 1..Len(sources) |->
       [sources[i] EXCEPT !.hasUpdate = "false", !.lastChecked = 1,
                          !.lastCommitHash = heads[sources[i].id]]]

\* skillNotes.ts:803-812: the records after the loop; q[i] = the remote query
\* for the i-th record succeeded
CheckedSources(sources, co, heads, q) ==
    [i \in 1..Len(sources) |->
       IF sources[i].enabled
       THEN [sources[i] EXCEPT
               !.hasUpdate = IF checkForUpdates(co[sources[i].id], heads[sources[i].id], q[i])
                             THEN "true" ELSE "false",
               !.lastChecked = 1]
       ELSE sources[i]]

\* ------------------------------------------------ registry operations in flight
\* Two commands of the host run at a time, each split where it awaits the
\* registry file: task t1 adds, syncs or removes source s1, task t2 adds
\* source s2 or is the periodic update check.  A task holds the array it read in local.
Tasks == {"t1", "t2"}
TaskSrc(t) == IF t = "t1" THEN "s1" ELSE "s2"
IdleTask == [pc |-> "idle", op |-> "none", local |-> <<>>, count |-> 0]

\* While two commands run at a time git either works or fails altogether,
\* and no copy fails.
Smooth(s, gitOk) == [git |-> GitOutcome(gitOk, gitOk),
                     cps |-> [i \in 1..Len(RepoSkills(s)) |-> CpAll]]

Goto(t, pc) == proc' = [proc EXCEPT ![t].pc = pc]
Finish(t, op, res) ==
    /\ proc' = [proc EXCEPT ![t] = IdleTask]
    /\ last' = Result(op, TaskSrc(t), res, FALSE, 0, 0)

\* part_002:1127-1172: the host starts a command
Start(t, op) ==
    /\ proc[t].pc = "idle"
    /\ proc' = [proc EXCEPT ![t] = [IdleTask EXCEPT !.pc = "read", !.op = op]]
    /\ UNCHANGED <<hubVars, linkVars, sparse, last>>

\* getSkillSources (skillNotes.ts:301-312) at the head of addSkillSource
\* (374-380), of _handleSyncSource (part_002:1302-1310), of removeSkillSource
\* (421-426) and of checkAllSourcesForUpdates (798)
ReadSources(t) ==
    /\ proc[t].pc = "read"
    /\ LET has == IndexOf(registry, TaskSrc(t)) # 0
           op == proc[t].op
       IN  IF op = "addSkillSource" /\ has
           THEN Finish(t, op, "exists")
           ELSE IF op \in {"syncSource", "removeSkillSource"} /\ ~has
           THEN Finish(t, op, "error")
           ELSE /\ proc' = [proc EXCEPT ![t].local = registry,
                                        ![t].pc = IF op = "syncSource" THEN "git" ELSE "save"]
                /\ UNCHANGED last
    /\ UNCHANGED <<hubVars, linkVars, sparse>>

\* saveSkillSources (skillNotes.ts:317-324) of the array held by the task:
\* addSkillSource 394-395, removeSkillSource 429-435,
\* checkAllSourcesForUpdates 803-815
SaveSources(t) ==
    /\ proc[t].pc = "save"
    /\ LET op == proc[t].op
           s == TaskSrc(t)
           local == proc[t].local
       IN  CASE op = "addSkillSource" ->
                  /\ registry' = Append(local, NewSource(s))
                  /\ Goto(t, "git")
                  /\ UNCHANGED <<checkout, last>>
             [] op = "removeSkillSource" ->
                  /\ registry' = removeSkillSource(local, checkout, s).reg
                  /\ checkout' = removeSkillSource(local, checkout, s).co
                  /\ Finish(t, op, "ok")
             [] op = "checkAllSourcesForUpdates" ->
                  /\ \E q \in [1..Len(local) -> BOOLEAN] :
                       registry' = CheckedSources(local, checkout, remote, q)
                  /\ Finish(t, op, "ok")
                  /\ UNCHANGED checkout
    /\ UNCHANGED <<enabled, disabled, remote, staleLog, linkVars, sparse>>

\* syncSource up to its registry update (skillNotes.ts:476-600)
SyncFetch(t) ==
    /\ proc[t].pc = "git"
    /\ \E gitOk \in BOOLEAN :
         LET s == TaskSrc(t)
             fx == Smooth(s, gitOk)
             g == fetchCheckout(checkout[s], remote[s], fx.git, FALSE)
             imp == scanAndImportSkills(RepoSkills(s), enabled, disabled, g.rev, fx.cps)
         IN  /\ checkout' = [checkout EXCEPT ![s] = g.rev]
             /\ enabled' = IF g.ok THEN imp.en ELSE enabled
             /\ disabled' = IF g.ok THEN imp.dis ELSE disabled
             /\ IF g.ok
                THEN /\ proc' = [proc EXCEPT ![t].pc = "update",
                                             ![t].count = imp.added + imp.updated]
                     /\ UNCHANGED last
                ELSE IF proc[t].op = "addSkillSource"
                THEN Goto(t, "rollback") /\ UNCHANGED last
                ELSE Finish(t, proc[t].op, "error")
    /\ UNCHANGED <<registry, remote, staleLog, linkVars, sparse>>

\* updateSkillSource reads the array (skillNotes.ts:442-447)
UpdateRead(t) ==
    /\ proc[t].pc = "update"
    /\ IF IndexOf(registry, TaskSrc(t)) # 0
       THEN /\ proc' = [proc EXCEPT ![t].pc = "updateSave", ![t].local = registry]
            /\ UNCHANGED last
       ELSE IF proc[t].op = "addSkillSource"
       THEN Goto(t, "rollback") /\ UNCHANGED last
       ELSE Finish(t, proc[t].op, "error")
    /\ UNCHANGED <<hubVars, linkVars, sparse>>

\* updateSkillSource writes the array (skillNotes.ts:449-450)
UpdateSave(t) ==
    /\ proc[t].pc = "updateSave"
    /\ registry' = updateSkillSource(proc[t].local, TaskSrc(t), checkout[TaskSrc(t)],
                                     proc[t].count).reg
    /\ Finish(t, proc[t].op, "ok")
    /\ UNCHANGED <<enabled, disabled, checkout, remote, staleLog, linkVars, sparse>>

\* the rollback of addSkillSource (skillNotes.ts:403-413): removeSkillSource
\* reads the array and, when the record is there, deletes checkout and record
Rollback(t) ==
    /\ proc[t].pc = "rollback"
    /\ IF IndexOf(registry, TaskSrc(t)) = 0
       THEN /\ Finish(t, proc[t].op, "syncError")
            /\ UNCHANGED hubVars
       ELSE /\ proc' = [proc EXCEPT ![t].pc = "rollbackSave", ![t].local = registry]
            /\ UNCHANGED <<hubVars, last>>
    /\ UNCHANGED <<linkVars, sparse>>

RollbackSave(t) ==
    /\ proc[t].pc = "rollbackSave"
    /\ registry' = removeSkillSource(proc[t].local, checkout, TaskSrc(t)).reg
    /\ checkout' = removeSkillSource(proc[t].local, checkout, TaskSrc(t)).co
    /\ Finish(t, proc[t].op, "syncError")
    /\ UNCHANGED <<enabled, disabled, remote, staleLog, linkVars, sparse>>

UserOps == {"addSkillSource", "syncSource", "removeSkillSource"}

InitRace ==
    /\ enabled = [n \in Names |-> NoDir]
    /\ disabled = [n \in Names |-> NoDir]
    /\ registry = <<>>
    /\ checkout = [s \in SrcIds |-> 0]
    /\ remote = [s \in SrcIds |-> 1]
    /\ staleLog = {}
    /\ NoLinks
    /\ sparse = NoSparse
    /\ proc = [t \in Tasks |-> IdleTask]
    /\ last = Result("init", "", "ok", FALSE, 0, 0)

NextRace ==
    \/ \E op \in UserOps : Start("t1", op)
    \/ \E op \in {"addSkillSource", "checkAllSourcesForUpdates"} : Start("t2", op)
    \/ \E t \in Tasks : ReadSources(t)
    \/ \E t \in Tasks : SaveSources(t)
    \/ \E t \in Tasks : SyncFetch(t)
    \/ \E t \in Tasks : UpdateRead(t)
    \/ \E t \in Tasks : UpdateSave(t)
    \/ \E t \in Tasks : Rollback(t)
    \/ \E t \in Tasks : RollbackSave(t)

SpecRace == InitRace /\ [][NextRace]_vars

\* ------------------------------------------------------------ update check
\* skillNotes.ts:836 (and 807): the records counted as having an update
Flagged(sources) ==
    {i \in 1..Len(sources) : sources[i].enabled /\ sources[i].hasUpdate = "true"}

RECURSIVE TotalSkills(_)
TotalSkills(sources) ==
    IF sources = <<>> THEN 0 ELSE Head(sources).skillCount + TotalSkills(Tail(sources))

\* skillNotes.ts:794-817 as part_002:1383-1401 calls it
CheckAllSourcesForUpdates ==
    \E q \in [1..Len(registry) -> BOOLEAN] :
      LET sources == CheckedSources(registry, checkout, remote, q)
      IN  /\ registry' = sources
          /\ last' = Result("checkAllSourcesForUpdates", "", "ok", FALSE, 0,
                            Cardinality(Flagged(sources)))
          /\ UNCHANGED <<enabled, disabled, checkout, remote, staleLog>>

\* skillNotes.ts:822-842
getSourcesStatus(sources) ==
    [totalSkills |-> TotalSkills(sources), updatesAvailable |-> Cardinality(Flagged(sources))]

GetSourcesStatus ==
    LET r == getSourcesStatus(registry) IN
    /\ last' = Result("getSourcesStatus", "", "ok", FALSE, r.totalSkills, r.updatesAvailable)
    /\ UNCHANGED <<enabled, disabled, registry, checkout, remote, staleLog>>

\* The registry with its update check, one command at a time, on an empty
\* warehouse.
InitUpdates ==
    /\ enabled = [n \in Names |-> NoDir]
    /\ disabled = [n \in Names |-> NoDir]
    /\ registry = <<>>
    /\ checkout = [s \in SrcIds |-> 0]
    /\ remote = [s \in SrcIds |-> 1]
    /\ staleLog = {}
    /\ NoLinks
    /\ sparse = NoSparse
    /\ proc = NoProcs
    /\ last = Result("init", "", "ok", FALSE, 0, 0)

NextUpdates ==
    \/ \E s \in SrcIds : SyncSource(s) /\ UNCHANGED <<linkVars, extVars>>
    \/ \E s \in SrcIds : addSkillSource(GitHubUrl("simple", s)) /\ UNCHANGED <<linkVars, extVars>>
    \/ \E s \in SrcIds : RemoveSkillSource(s) /\ UNCHANGED <<linkVars, extVars>>
    \/ \E s \in SrcIds : RemotePush(s) /\ UNCHANGED <<linkVars, extVars>>
    \/ CheckAllSourcesForUpdates /\ UNCHANGED <<linkVars, extVars>>
    \/ GetSourcesStatus /\ UNCHANGED <<linkVars, extVars>>

SpecUpdates == InitUpdates /\ [][NextUpdates]_vars

\* ------------------------------------------------------------------ fetch
\* Sources with and without a subpath are added, synced and removed under
\* every outcome of git, on an empty warehouse.
NextFetch ==
    \/ \E s \in SrcIds : SyncSourceUnder(s, TRUE) /\ UNCHANGED <<linkVars, extVars>>
    \/ \E u \in {GitHubUrl("simple", "s1"), SubpathUrl("s2")} :
         addSkillSourceUnder(u, TRUE) /\ UNCHANGED <<linkVars, extVars>>
    \/ \E s \in SrcIds : RemoveSkillSource(s) /\ UNCHANGED <<linkVars, extVars>>
    \/ \E s \in SrcIds : RemotePush(s) /\ UNCHANGED <<linkVars, extVars>>

SpecFetch == InitUpdates /\ [][NextFetch]_vars

\* --------------------------------------------------------------- deep scan
\* The directories of a checkout that the deep scan can meet, as paths
\* relative to the scan root: a chain a/b/c, a hidden directory inside a
\* directory, a hidden directory at the top and a directory inside it.
MaxScanDepth == 2
ScanPaths == {<<"a">>, <<"a", "b">>, <<"a", "b", "c">>, <<"a", ".h">>,
              <<".h">>, <<".h", "b">>}

\* What lies at a path: nothing, a directory, a directory holding SKILL.md,
\* a directory that readdir cannot read (SKILL.md inside it cannot be seen).
ScanKinds == {"none", "dir", "pkg", "locked"}

\* Every directory lies in a directory.
Trees == {t \in [ScanPaths -> ScanKinds] :
            \A p \in ScanPaths : t[p] # "none" /\ Len(p) > 1 => t[dirname(p)] # "none"}

\* entry.name.startsWith('.') answering no for every name
startsWithDot_Never(name) == FALSE

\* entry.name.startsWith('.')
startsWithDot(name) == name \in {".h"}

\* fs.promises.readdir(currentDir, { withFileTypes: true }) filtered by
\* entry.isDirectory(); a directory that cannot be read throws, and the
\* catch leaves its entries out
readdir(tree, currentDir) ==
    IF currentDir # <<>> /\ tree[currentDir] = "locked" THEN {}
    ELSE {p \in ScanPaths : dirname(p) = currentDir /\ tree[p] # "none"}

\* skillNotes.ts:671-694
RECURSIVE scan(_, _, _, _)
scan(tree, currentDir, depth, maxDepth) ==
    IF depth > maxDepth THEN {}
    ELSE UNION {IF startsWithDot(basename(subDir)) THEN {}
                ELSE IF tree[subDir] = "pkg" THEN {subDir}
                ELSE scan(tree, subDir, depth + 1, maxDepth) :
                subDir \in readdir(tree, currentDir)}

\* skillNotes.ts:668-698 (the order of the result is the order of readdir
\* and is left out)
findAllSkillDirectories(tree, maxDepth) == scan(tree, <<>>, 0, maxDepth)

FindAllSkillDirectories ==
    /\ sparse.phase = "tree"
    /\ \E maxDepth \in 0..MaxScanDepth :
         LET results == findAllSkillDirectories(sparse.tree, maxDepth)
         IN  /\ sparse' = [sparse EXCEPT !.phase = "scanned", !.maxDepth = maxDepth,
                                         !.found = results]
             /\ last' = Result("findAllSkillDirectories", "", "ok", FALSE,
                               Cardinality(results), 0)
    /\ UNCHANGED <<hubVars, linkVars, proc>>

InitScan ==
    /\ enabled = [n \in Names |-> NoDir]
    /\ disabled = [n \in Names |-> NoDir]
    /\ registry = <<>>
    /\ checkout = [s \in SrcIds |-> 0]
    /\ remote = [s \in SrcIds |-> 1]
    /\ staleLog = {}
    /\ NoLinks
    /\ proc = NoProcs
    /\ \E t \in Trees : sparse = [phase |-> "tree", tree |-> t, maxDepth |-> 0, found |-> {}]
    /\ last = Result("init", "", "ok", FALSE, 0, 0)

NextScan ==
    \/ FindAllSkillDirectories

SpecScan == InitScan /\ [][NextScan]_vars

\* ------------------------------------------------------------ sync of all
\* A filter that keeps every source.
EnabledSources_All(sources) == [i \in 1..Len(sources) |-> sources[i].id]

\* skillNotes.ts:739: sources.filter(s => s.enabled), as the ids in order
RECURSIVE EnabledSources(_)
EnabledSources(sources) ==
    IF sources = <<>> THEN <<>>
    ELSE IF Head(sources).enabled
    THEN <<Head(sources).id>> \o EnabledSources(Tail(sources))
    ELSE EnabledSources(Tail(sources))

\* skillNotes.ts:744-752: the loop; st.outcome[s] is "ok" after success++,
\* "failed" after failed++, "skipped" when syncSource was not called for s
RECURSIVE syncEach(_, _, _)
syncEach(ids, st, fx) ==
    IF ids = <<>> THEN st
    ELSE LET s == Head(ids) IN
         CHOOSE out \in
           {syncEach(Tail(ids),
                     [reg |-> r.reg, en |-> r.en, dis |-> r.dis, co |-> r.co,
                      outcome |-> [st.outcome EXCEPT ![s] = IF r.ok THEN "ok" ELSE "failed"]],
                     fx) :
              r \in {syncSource(s, st.reg, st.en, st.dis, st.co, fx[s])}} : TRUE

\* skillNotes.ts:737-755
syncAllSources(reg, en, dis, co, fx) ==
    LET enabledSources == EnabledSources(reg) IN
    CHOOSE res \in
      {[st |-> st, total |-> Len(enabledSources),
        success |-> Cardinality({s \in SrcIds : st.outcome[s] = "ok"}),
        failed |-> Cardinality({s \in SrcIds : st.outcome[s] = "failed"})] :
         st \in {syncEach(enabledSources,
                          [reg |-> reg, en |-> en, dis |-> dis, co |-> co,
                           outcome |-> [s \in SrcIds |-> "skipped"]], fx)}} : TRUE

\* part_002:1324-1338 calling skillNotes.ts:737
SyncAllSources ==
    \E f1 \in SyncFx("s1"), f2 \in SyncFx("s2") :
      \E r \in {syncAllSources(registry, enabled, disabled, checkout,
                                [s \in SrcIds |-> IF s = "s1" THEN f1 ELSE f2])} :
          /\ registry' = r.st.reg
          /\ enabled' = r.st.en
          /\ disabled' = r.st.dis
          /\ checkout' = r.st.co
          /\ last' = [op |-> "syncAllSources", arg |-> "", res |-> "ok", warned |-> FALSE,
                      added |-> 0, updated |-> 0, total |-> r.total,
                      success |-> r.success, failed |-> r.failed, outcome |-> r.st.outcome]
          /\ UNCHANGED <<remote, staleLog>>

\* skillNotes.ts:368-415 with options.enabled (388), when the first sync
\* succeeds: what the call leaves of registry, warehouse and checkouts
Added(st, s, on) ==
    CHOOSE out \in
      {[reg |-> r.reg, en |-> r.en, dis |-> r.dis, co |-> r.co] :
         r \in {syncSource(s, Append(st.reg, [NewSource(s) EXCEPT !.enabled = on]),
                           st.en, st.dis, st.co, Smooth(s, TRUE))}} : TRUE

\* Each source was added with enabled true or false, or not at all.
InitSyncAll ==
    /\ remote = [s \in SrcIds |-> 1]
    /\ \E how \in [SrcIds -> {"no", "on", "off"}] :
       \E st0 \in {[reg |-> <<>>, en |-> [n \in Names |-> NoDir],
                     dis |-> [n \in Names |-> NoDir], co |-> [s \in SrcIds |-> 0]]} :
       \E st1 \in {IF how["s1"] = "no" THEN st0 ELSE Added(st0, "s1", how["s1"] = "on")} :
       \E st2 \in {IF how["s2"] = "no" THEN st1 ELSE Added(st1, "s2", how["s2"] = "on")} :
             /\ registry = st2.reg
             /\ enabled = st2.en
             /\ disabled = st2.dis
             /\ checkout = st2.co
    /\ staleLog = {}
    /\ NoLinks
    /\ sparse = NoSparse
    /\ proc = NoProcs
    /\ last = Result("init", "", "ok", FALSE, 0, 0)

NextSyncAll ==
    \/ SyncAllSources /\ UNCHANGED <<linkVars, extVars>>
    \/ \E s \in SrcIds : RemotePush(s) /\ UNCHANGED <<linkVars, extVars>>

SpecSyncAll == InitSyncAll /\ [][NextSyncAll]_vars

\* ------------------------------------------------- links made by command
\* paths.ts:31-64: two of the tools of the commands "link tool" and "link
\* all tools".  The node at <<t, 0>> is the tool's skills path, the node at
\* <<t, k>> its k-th backup path `${toolPath}_backup_${Date.now()}`.
CmdTools == {"gemini-cli", "claude-code"}
MaxBackups == 2
CmdPaths == CmdTools \X (0..MaxBackups)

\* filesystem.ts pathExists (part_003:67-74): fs.promises.access follows
\* links; the warehouse has been made by then
pathExists(nd) == nd.t = "dir" \/ (nd.t = "link" /\ nd.to \in {"W", "X"})

\* part_003:44-51
isSymlink(nd) == nd.t = "link"

\* A backup that removes the directory.
backupRename_Remove(nodes, t, k) == [nodes EXCEPT ![<<t, 0>>] = Absent]

\* part_003:104-105: fs.promises.rename(toolPath, backupPath)
backupRename(nodes, t, k) == [nodes EXCEPT ![<<t, 0>>] = Absent, ![<<t, k>>] = nodes[<<t, 0>>]]

\* The backup path of the present millisecond is a new name.
FreeBackups(nodes, t) == {k \in 1..MaxBackups : nodes[<<t, k>>].t = "absent"}

CmdResult(op, t, force, res) ==
    [op |-> op, arg |-> t, res |-> res, warned |-> FALSE, added |-> 0, updated |-> 0,
     force |-> force]

\* part_003:81-119.  mv, rm, ln = the rename, the unlink and the symlink
\* call succeed
createSymlinkForTool(t, force) ==
    \E mv \in BOOLEAN, rm \in BOOLEAN, ln \in BOOLEAN :
      LET nd == node[<<t, 0>>]
          exists == pathExists(nd)
          isLink == isSymlink(nd)
          k == CHOOSE k \in FreeBackups(node, t) : \A j \in FreeBackups(node, t) : k <= j
          threw == \/ exists /\ ~isLink /\ (~force \/ ~mv)
                   \/ isLink /\ ~rm
          cleared == IF exists /\ ~isLink THEN backupRename(node, t, k)
                     ELSE IF isLink THEN [node EXCEPT ![<<t, 0>>] = Absent]
                     ELSE node
          made == symlink(cleared[<<t, 0>>])
      IN  /\ (exists /\ ~isLink /\ force) => FreeBackups(node, t) # {}
          /\ (exists /\ ~isLink /\ force) \/ mv
          /\ isLink \/ rm
          /\ ~threw \/ ln
          /\ wh' = [wh EXCEPT !.ex = TRUE]
          /\ node' = IF threw THEN node
                     ELSE IF ln THEN [cleared EXCEPT ![<<t, 0>>] = made.node]
                     ELSE cleared
          /\ last' = CmdResult("createSymlinkForTool", t, force,
                               IF threw \/ ~ln \/ ~made.ok THEN "error" ELSE "ok")
          /\ UNCHANGED <<platform, root, hubVars, extVars>>

\* part_003:159-173
removeSymlinkForTool(t) ==
    \E rm \in BOOLEAN :
      /\ isSymlink(node[<<t, 0>>]) \/ rm
      /\ node' = IF isSymlink(node[<<t, 0>>]) /\ rm THEN [node EXCEPT ![<<t, 0>>] = Absent]
                 ELSE node
      /\ last' = CmdResult("removeSymlinkForTool", t, FALSE,
                           IF isSymlink(node[<<t, 0>>]) /\ rm THEN "ok" ELSE "error")
      /\ UNCHANGED <<platform, wh, root, hubVars, extVars>>

\* The tool makes its skills directory and puts a file into it.
ToolStarts(t) ==
    /\ node[<<t, 0>>].t = "absent"
    /\ node' = [node EXCEPT ![<<t, 0>>] =
                  DirNode([x \in EntryNames |-> IF x = "a" THEN [k |-> "file", v |-> ToolV]
                                                ELSE NoEntry])]
    /\ last' = CmdResult("toolStarts", t, FALSE, "ok")
    /\ UNCHANGED <<platform, wh, root, hubVars, extVars>>

InitSymlink ==
    /\ enabled = [n \in Names |-> NoDir]
    /\ disabled = [n \in Names |-> NoDir]
    /\ registry = <<>>
    /\ checkout = [s \in SrcIds |-> 0]
    /\ remote = [s \in SrcIds |-> 1]
    /\ staleLog = {}
    /\ platform = "posix"
    /\ \E at \in [CmdTools -> {Absent, DirNode(NoEntries), LinkNode("W"), LinkNode("X"),
                              LinkNode("gone")}] :
         node = [p \in CmdPaths |-> IF p[2] = 0 THEN at[p[1]] ELSE Absent]
    /\ wh = [ex |-> FALSE, e |-> NoEntries]
    /\ root = [r \in Roots |-> FALSE]
    /\ sparse = NoSparse
    /\ proc = NoProcs
    /\ last = Result("init", "", "ok", FALSE, 0, 0)

NextSymlink ==
    \/ \E t \in CmdTools, force \in BOOLEAN : createSymlinkForTool(t, force)
    \/ \E t \in CmdTools : removeSymlinkForTool(t)
    \/ \E t \in CmdTools : ToolStarts(t)

SpecSymlink == InitSymlink /\ [][NextSymlink]_vars

\* ------------------------------------------------------------------ panel
\* The webview panel handles one message of the user at a time: proc holds
\* the handler's position (pc), the operation and its argument, the result
\* of the operation once it has finished (res, "none" before), the message
\* shown last (msg), the list posted to the webview last (shown), and job,
\* the progress task that a handler started without awaiting it.
PanelOps == {"enableSkill", "disableSkill", "addSkillSource", "syncSource",
             "removeSkillSource"}
\* The user toggles the package p and works on the source s1.
PanelArgs(op) == IF op \in {"enableSkill", "disableSkill"} THEN {"p"} ELSE HubSrc

\* part_003:311-318 and part_002:1859: the packages of both partitions with
\* their activation, and the registered sources
Listing(en, dis, reg) ==
    [skills |-> {<<n, TRUE>> : n \in {n \in Names : HasMarker(en[n])}}
                  \cup {<<n, FALSE>> : n \in {n \in Names : HasMarker(dis[n])}},
     sources |-> {reg[i].id : i \in 1..Len(reg)}]

\* part_002:1127-1150: a message of the webview starts its handler; the user
\* starts an action when the last one has left nothing running
Click(op, arg) ==
    /\ proc.pc = "idle"
    /\ proc.job = "none"
    /\ proc' = [proc EXCEPT !.pc = "call", !.op = op, !.arg = arg, !.res = "none",
                            !.msg = "none"]
    /\ UNCHANGED <<hubVars, linkVars, sparse, last>>

Returned(pc) == proc' = [proc EXCEPT !.pc = pc, !.res = last'.res]

\* part_002:1284-1362: await of the operation inside try
AwaitOperation ==
    /\ proc.pc = "call"
    /\ proc.op # "addSkillSource"
    /\ CASE proc.op = "enableSkill" -> enableSkill(proc.arg)
         [] proc.op = "disableSkill" -> disableSkill(proc.arg)
         [] proc.op = "removeSkillSource" -> RemoveSkillSource(proc.arg)
         [] proc.op = "syncSource" ->
              IF IndexOf(registry, proc.arg) # 0
              THEN SyncSource(proc.arg)
              ELSE /\ last' = Result("syncSource", proc.arg, "error", FALSE, 0, 0)
                   /\ UNCHANGED hubVars
    /\ Returned("report")
    /\ UNCHANGED <<linkVars, sparse>>

\* part_002:1270-1277: withProgress is called and its promise is dropped;
\* the handler goes on to _refresh
StartProgress ==
    /\ proc.pc = "call"
    /\ proc.op = "addSkillSource"
    /\ proc' = [proc EXCEPT !.pc = "refresh", !.job = "pending"]
    /\ UNCHANGED <<hubVars, linkVars, sparse, last>>

\* part_002:1274-1277: the task of withProgress: addSkillSource returns and
\* the message is shown, or it throws and the rejection reaches no catch
ProgressTask ==
    /\ proc.job = "pending"
    /\ addSkillSource(GitHubUrl("simple", proc.arg))
    /\ proc' = [proc EXCEPT !.job = "none", !.res = last'.res,
                            !.msg = IF last'.res = "ok" THEN "info" ELSE @]
    /\ UNCHANGED <<linkVars, sparse>>

\* showInformationMessage after the await, showErrorMessage in the catch,
\* which returns without _refresh
Report ==
    /\ proc.pc = "report"
    /\ proc' = [proc EXCEPT !.msg = IF proc.res = "ok" THEN "info" ELSE "error",
                            !.pc = IF proc.res = "ok" THEN "refresh" ELSE "idle"]
    /\ UNCHANGED <<hubVars, linkVars, sparse, last>>

\* part_002:1209-1213 with 1858-1867
Refresh ==
    /\ proc.pc = "refresh"
    /\ proc' = [proc EXCEPT !.pc = "idle", !.shown = Listing(enabled, disabled, registry)]
    /\ UNCHANGED <<hubVars, linkVars, sparse, last>>

\* part_002:1194-1195: the panel is made and loads its list
InitPanel ==
    /\ \E place \in [Names -> {"none", "enabled", "disabled"}] :
         /\ enabled = [n \in Names |-> IF place[n] = "enabled" THEN LocalPkg ELSE NoDir]
         /\ disabled = [n \in Names |-> IF place[n] = "disabled" THEN LocalPkg ELSE NoDir]
    /\ registry = <<>>
    /\ checkout = [s \in SrcIds |-> 0]
    /\ remote = [s \in SrcIds |-> 1]
    /\ staleLog = {}
    /\ NoLinks
    /\ sparse = NoSparse
    /\ proc = [pc |-> "idle", op |-> "none", arg |-> "", res |-> "none", msg |-> "none",
               job |-> "none", shown |-> Listing(enabled, disabled, registry)]
    /\ last = Result("init", "", "ok", FALSE, 0, 0)

NextPanel ==
    \/ \E op \in PanelOps : \E arg \in PanelArgs(op) : Click(op, arg)
    \/ AwaitOperation
    \/ StartProgress
    \/ ProgressTask
    \/ Report
    \/ Refresh

SpecPanel == InitPanel /\ [][NextPanel]_vars

\* ------------------------------------------------------- safeMove, by step
\* One call of enableSkill or disableSkill, split at the awaits of safeMove:
\* proc holds the position (pc), the call (op, n), the number of renames
\* attempted and the code of the error the last rename threw.
IdleMove == [pc |-> "idle", op |-> "none", n |-> "", attempts |-> 0, code |-> "none"]

\* error.code of a failed fs.promises.rename
Busy == {"EPERM", "EBUSY", "ENOTEMPTY"}
RenameErrors == Busy \cup {"EXDEV", "ENOENT"}

\* insert_safemove.js:17: the default of maxRetries in the patch template
maxRetries == 3

SrcOf(op, n) == IF op = "enableSkill" THEN disabled[n] ELSE enabled[n]
DestOf(op, n) == IF op = "enableSkill" THEN enabled[n] ELSE disabled[n]
Moved(op, n, src, dest) ==
    IF op = "enableSkill"
    THEN /\ disabled' = [disabled EXCEPT ![n] = src]
         /\ enabled' = [enabled EXCEPT ![n] = dest]
    ELSE /\ enabled' = [enabled EXCEPT ![n] = src]
         /\ disabled' = [disabled EXCEPT ![n] = dest]

MoveReturns(res, warned) ==
    /\ last' = Result(proc.op, proc.n, res, warned, 0, 0)
    /\ proc' = [proc EXCEPT !.pc = "idle"]

\* part_003:324-341 and 353-365: the checks pass and safeMove is called
CallSafeMove(op, n) ==
    /\ proc.pc = "idle"
    /\ IF op = "enableSkill" THEN HasMarker(disabled[n]) ELSE enabled[n].ex
    /\ proc' = [IdleMove EXCEPT !.pc = IF DestOf(op, n).ex THEN "removeDest" ELSE "rename",
                                !.op = op, !.n = n]
    /\ UNCHANGED <<hubVars, linkVars, sparse, last>>

\* part_003:411-413
RemoveDest ==
    /\ proc.pc = "removeDest"
    /\ \E rm \in RmFx(DestOf(proc.op, proc.n)) :
         LET r == removeDirectory(DestOf(proc.op, proc.n), rm) IN
         /\ Moved(proc.op, proc.n, SrcOf(proc.op, proc.n), r.dir)
         /\ IF r.ok
            THEN proc' = [proc EXCEPT !.pc = "rename"] /\ UNCHANGED last
            ELSE MoveReturns("error", FALSE)
    /\ UNCHANGED <<registry, checkout, remote, staleLog, linkVars, sparse>>

\* part_003:415-420: one rename; whatever it throws leads to the catch
Rename ==
    /\ proc.pc = "rename"
    /\ \E out \in {"ok"} \cup RenameErrors :
         IF out = "ok"
         THEN /\ Moved(proc.op, proc.n, NoDir, SrcOf(proc.op, proc.n))
              /\ last' = Result(proc.op, proc.n, "ok", FALSE, 0, 0)
              /\ proc' = [proc EXCEPT !.pc = "idle", !.attempts = @ + 1]
         ELSE /\ proc' = [proc EXCEPT !.pc = "copy", !.attempts = @ + 1, !.code = out]
              /\ UNCHANGED <<enabled, disabled, last>>
    /\ UNCHANGED <<registry, checkout, remote, staleLog, linkVars, sparse>>

\* part_003:422-440
CopyDelete ==
    /\ proc.pc = "copy"
    /\ \E fx \in {fx \in MoveFx(SrcOf(proc.op, proc.n), NoDir) : ~fx.ren} :
         LET m == copyThenDelete(SrcOf(proc.op, proc.n), fx) IN
         /\ Moved(proc.op, proc.n, m.src, m.dest)
         /\ staleLog' = IF m.warned THEN staleLog \cup {proc.n} ELSE staleLog
         /\ MoveReturns(m.res, m.warned)
    /\ UNCHANGED <<registry, checkout, remote, linkVars, sparse>>

InitSteps ==
    /\ \E place \in [Names -> {"none", "enabled", "disabled"}] :
         /\ enabled = [n \in Names |-> IF place[n] = "enabled" THEN LocalPkg ELSE NoDir]
         /\ disabled = [n \in Names |-> IF place[n] = "disabled" THEN LocalPkg ELSE NoDir]
    /\ registry = <<>>
    /\ checkout = [s \in SrcIds |-> 0]
    /\ remote = [s \in SrcIds |-> 1]
    /\ staleLog = {}
    /\ NoLinks
    /\ sparse = NoSparse
    /\ proc = IdleMove
    /\ last = Result("init", "", "ok", FALSE, 0, 0)

NextSteps ==
    \/ \E op \in {"enableSkill", "disableSkill"}, n \in Names : CallSafeMove(op, n)
    \/ RemoveDest
    \/ Rename
    \/ CopyDelete

SpecSteps == InitSteps /\ [][NextSteps]_vars

\* ------------------------------------------------- a toggle during an import
\* Two commands of the host run at a time: task mov is enableSkill or
\* disableSkill of a package, task imp is the iteration of the import loop
\* of a syncSource for the same package.  Each is split where it awaits the
\* filesystem; every call of the filesystem does what it was asked to do
\* unless the path it needs is missing.  proc holds both positions.
IdleTasks == [mov |-> [pc |-> "idle", op |-> "none", n |-> ""],
              imp |-> [pc |-> "idle", n |-> "", toEn |-> FALSE]]

\* The revision the import copies.
ImportRev == 1

\* part_003:324-341, 353-365 and 409-417: the checks of the toggle and the
\* existsSync(destPath) of safeMove run without an await between them
MoveBegins(op, n) ==
    /\ proc.mov.pc = "idle"
    /\ IF op = "enableSkill" THEN HasMarker(disabled[n]) ELSE enabled[n].ex
    /\ proc' = [proc EXCEPT !.mov = [pc |-> IF DestOf(op, n).ex THEN "removeDest" ELSE "rename",
                                     op |-> op, n |-> n]]
    /\ UNCHANGED <<hubVars, linkVars, sparse, last>>

MoveEnds(res, warned) ==
    /\ proc' = [proc EXCEPT !.mov.pc = "idle"]
    /\ staleLog' = IF warned THEN staleLog \cup {proc.mov.n} ELSE staleLog
    /\ last' = Result(proc.mov.op, proc.mov.n, res, warned, 0, 0)

\* part_003:412
MoveRemovesDest ==
    /\ proc.mov.pc = "removeDest"
    /\ Moved(proc.mov.op, proc.mov.n, SrcOf(proc.mov.op, proc.mov.n), NoDir)
    /\ proc' = [proc EXCEPT !.mov.pc = "rename"]
    /\ UNCHANGED <<registry, checkout, remote, staleLog, linkVars, sparse, last>>

\* part_003:417-431: rename needs src to exist and dest to be absent or
\* empty; when it throws, copyDirectory and removeDirectory follow, and the
\* copy throws when src is missing, after it has made dest: the catch finds
\* dest, warns and returns (433-438)
MoveRenames ==
    /\ proc.mov.pc = "rename"
    /\ LET src == SrcOf(proc.mov.op, proc.mov.n)
           dest == DestOf(proc.mov.op, proc.mov.n)
           merged == [ex |-> TRUE,
                      f |-> [x \in Files |-> IF src.f[x] # 0 THEN src.f[x] ELSE dest.f[x]]]
       IN  IF src.ex /\ FilesOf(dest) = {}
           THEN Moved(proc.mov.op, proc.mov.n, NoDir, src) /\ MoveEnds("ok", FALSE)
           ELSE IF src.ex
           THEN Moved(proc.mov.op, proc.mov.n, NoDir, merged) /\ MoveEnds("ok", FALSE)
           ELSE /\ Moved(proc.mov.op, proc.mov.n, src, [dest EXCEPT !.ex = TRUE])
                /\ MoveEnds("ok", TRUE)
    /\ UNCHANGED <<registry, checkout, remote, linkVars, sparse>>

\* skillNotes.ts:634-656: the import decides where the package goes
ImportDecides(n) ==
    /\ proc.imp.pc = "idle"
    /\ proc' = [proc EXCEPT !.imp = [pc |-> "mkdir", n |-> n,
                                     toEn |-> ImportToEnabled(enabled, n)]]
    /\ UNCHANGED <<hubVars, linkVars, sparse, last>>

ImportTarget(t) == IF t.toEn THEN enabled[t.n] ELSE disabled[t.n]
Written(t, d) ==
    IF t.toEn THEN enabled' = [enabled EXCEPT ![t.n] = d] /\ UNCHANGED disabled
    ELSE disabled' = [disabled EXCEPT ![t.n] = d] /\ UNCHANGED enabled

\* part_003:448: mkdir(dest, { recursive: true })
ImportMakesDir ==
    /\ proc.imp.pc = "mkdir"
    /\ Written(proc.imp, [ImportTarget(proc.imp) EXCEPT !.ex = TRUE])
    /\ proc' = [proc EXCEPT !.imp.pc = "copy"]
    /\ UNCHANGED <<registry, checkout, remote, staleLog, linkVars, sparse, last>>

\* part_003:458 and skillNotes.ts:719: copyFile of SKILL.md, then writeFile
\* of the metadata; either throws when the directory is gone
ImportWrites ==
    /\ proc.imp.pc \in {"copy", "meta"}
    /\ LET x == IF proc.imp.pc = "copy" THEN MARKER ELSE META
           d == ImportTarget(proc.imp)
       IN  IF ~d.ex
           THEN /\ proc' = [proc EXCEPT !.imp.pc = "idle"]
                /\ last' = Result("syncSource", proc.imp.n, "error", FALSE, 0, 0)
                /\ UNCHANGED <<enabled, disabled>>
           ELSE /\ Written(proc.imp, [d EXCEPT !.f[x] = ImportRev])
                /\ proc' = [proc EXCEPT !.imp.pc = IF x = MARKER THEN "meta" ELSE "idle"]
                /\ last' = IF x = MARKER THEN last
                           ELSE Result("syncSource", proc.imp.n, "ok", FALSE, 0, 1)
    /\ UNCHANGED <<registry, checkout, remote, staleLog, linkVars, sparse>>

InitInterleave ==
    /\ \E place \in [Names -> {"none", "enabled", "disabled"}] :
         /\ enabled = [n \in Names |-> IF place[n] = "enabled" THEN LocalPkg ELSE NoDir]
         /\ disabled = [n \in Names |-> IF place[n] = "disabled" THEN LocalPkg ELSE NoDir]
    /\ registry = <<>>
    /\ checkout = [s \in SrcIds |-> 0]
    /\ remote = [s \in SrcIds |-> 1]
    /\ staleLog = {}
    /\ NoLinks
    /\ sparse = NoSparse
    /\ proc = IdleTasks
    /\ last = Result("init", "", "ok", FALSE, 0, 0)

NextInterleave ==
    \/ \E op \in {"enableSkill", "disableSkill"}, n \in Names : MoveBegins(op, n)
    \/ MoveRemovesDest
    \/ MoveRenames
    \/ \E n \in Names : ImportDecides(n)
    \/ ImportMakesDir
    \/ ImportWrites

SpecInterleave == InitInterleave /\ [][NextInterleave]_vars

\* ------------------------------------------- a tool with several candidates
\* A tool's skills folder may be at any of its candidate paths: each is
\* absent, a link or an ordinary directory.  detectTools and linkTool are
\* called in any order.
InitCandidates ==
    /\ enabled = [n \in Names |-> NoDir]
    /\ disabled = [n \in Names |-> NoDir]
    /\ registry = <<>>
    /\ checkout = [s \in SrcIds |-> 0]
    /\ remote = [s \in SrcIds |-> 1]
    /\ staleLog = {}
    /\ platform = "posix"
    /\ wh \in {[ex |-> FALSE, e |-> NoEntries]}
                \cup {[ex |-> TRUE, e |-> e] : e \in [EntryNames -> WarehouseEntry]}
    /\ node \in [Paths -> DetectNodes]
    /\ root \in [Roots -> BOOLEAN]
    /\ \A p \in Paths : node[p] # Absent => root[ParentDir(p)]
    /\ sparse = NoSparse
    /\ proc = NoProcs
    /\ last = Result("init", "", "ok", FALSE, 0, 0)

NextCandidates ==
    \/ \E t \in ToolIds : linkTool(t)
    \/ detectTools

SpecCandidates == InitCandidates /\ [][NextCandidates]_vars

\* ------------------------------------------------------------- properties
InBoth(n) == HasMarker(enabled[n]) /\ HasMarker(disabled[n])

MovedBy(n, op) == last'.op = op /\ last'.arg = n

\* C2: whenever safeMove returns without error, dest holds every file of
\* src, and src is absent unless the soft-success warning was logged.
MoveSafety ==
    [][\A n \in Names :
         /\ (MovedBy(n, "enableSkill") /\ last'.res = "ok")
              => /\ \A x \in FilesOf(disabled[n]) : enabled'[n].f[x] = disabled[n].f[x]
                 /\ ~disabled'[n].ex \/ last'.warned
         /\ (MovedBy(n, "disableSkill") /\ last'.res = "ok")
              => /\ \A x \in FilesOf(enabled[n]) : disabled'[n].f[x] = enabled[n].f[x]
                 /\ ~enabled'[n].ex \/ last'.warned]_vars

\* dest1 is not a complete copy of src
Incomplete(src, dest1) == ~dest1.ex \/ \E x \in FilesOf(src) : dest1.f[x] # src.f[x]

\* C10: when the move to a dest that was absent does not end with a complete
\* copy at dest, nothing is left at dest, safeMove throws, and src is as it
\* was.
PartialCopyPurged ==
    [][\A n \in Names :
         /\ (MovedBy(n, "enableSkill") /\ HasMarker(disabled[n]) /\ ~enabled[n].ex
               /\ Incomplete(disabled[n], enabled'[n]))
              => ~enabled'[n].ex /\ last'.res = "error" /\ disabled'[n] = disabled[n]
         /\ (MovedBy(n, "disableSkill") /\ enabled[n].ex /\ ~disabled[n].ex
               /\ Incomplete(enabled[n], disabled'[n]))
              => ~disabled'[n].ex /\ last'.res = "error" /\ enabled'[n] = enabled[n]]_vars

\* The step is a sync of source s (alone, or as the first sync of an add).
Synced(s) == last'.op \in {"syncSource", "addSkillSource"} /\ last'.arg = s

InRepo(n, s) == \E i \in 1..Len(RepoSkills(s)) : RepoSkills(s)[i] = n

\* C3: a sync of a source that holds a package whose name is enabled leaves
\* the package enabled and the disabled partition's entry of that name as it
\* was, and a successful sync has written the checkout's content into the
\* enabled copy.
ImportKeepsEnabled ==
    [][\A s \in SrcIds, n \in Names :
         (Synced(s) /\ InRepo(n, s) /\ HasMarker(enabled[n]))
           => /\ HasMarker(enabled'[n])
              /\ disabled'[n] = disabled[n]
              /\ last'.res = "ok"
                   => /\ enabled'[n].f[MARKER] = checkout'[s]
                      /\ enabled'[n].f[META] = checkout'[s]]_vars

\* A sync has just updated an enabled package in place.
EnabledUpdated ==
    /\ last.op = "syncSource" /\ last.res = "ok" /\ last.updated > 0
    /\ \E n \in Names : /\ InRepo(n, last.arg)
                        /\ HasMarker(enabled[n])
                        /\ enabled[n].f[META] = checkout[last.arg]
                        /\ ~disabled[n].ex

LinkedToWarehouse ==
    (last.op = "linkTool" /\ last.res = "ok")
      => node[GlobalPath(last.arg)[1]] = LinkNode("W") /\ wh.ex

\* A tool whose path was an ordinary directory has been linked: its entries
\* are in the warehouse.
LinkedAfterMerge ==
    /\ last.op = "linkTool" /\ last.res = "ok"
    /\ node[GlobalPath(last.arg)[1]] = LinkNode("W")
    /\ \E x \in EntryNames : wh.e[x].v = ToolV

\* C6: whenever unlinkTool returns success, the path it worked on is not a
\* link; a link that survived the removal makes the call fail.
UnlinkVerified ==
    (last.op = "unlinkTool" /\ last.res = "ok")
      => node[UnlinkTarget(last.arg, node)].t = "dir"

\* A tool has been unlinked and holds a snapshot of the warehouse.
UnlinkedWithSnapshot ==
    /\ last.op = "unlinkTool" /\ last.res = "ok"
    /\ node[UnlinkTarget(last.arg, node)].t = "dir"
    /\ \E x \in EntryNames : node[UnlinkTarget(last.arg, node)].e[x].v = WarehouseV

\* C7: a linkTool or unlinkTool call that finds a link to the warehouse at
\* the tool's path leaves every entry of the warehouse as it was.
LinkRemovalSparesWarehouse ==
    [][\A t \in ToolIds :
         /\ (last'.op = "linkTool" /\ last'.arg = t
               /\ node[GlobalPath(t)[1]] = LinkNode("W"))
              => wh'.e = wh.e
         /\ (last'.op = "unlinkTool" /\ last'.arg = t
               /\ node[UnlinkTarget(t, node)] = LinkNode("W"))
              => wh'.e = wh.e]_vars

\* C8: a linkTool call that finds an ordinary directory at the tool's path
\* leaves every entry the warehouse already held as it was.
MergeKeepsWarehouseEntries ==
    [][\A t \in ToolIds :
         (last'.op = "linkTool" /\ last'.arg = t /\ node[GlobalPath(t)[1]].t = "dir")
           => \A x \in EntryNames : wh.e[x].k # "none" => wh'.e[x] = wh.e[x]]_vars

\* A merge has ended next to entries the warehouse held before.
MergedBesideWarehouseEntries ==
    /\ last.op = "linkTool" /\ last.res = "ok"
    /\ \E x \in EntryNames : wh.e[x].v = WarehouseV
    /\ \E x \in EntryNames : wh.e[x].v = ToolV

\* C9: right after a successful linkTool of a tool, a second linkTool of the
\* same tool in which the operating system refuses nothing succeeds and
\* leaves the path and the warehouse as the first call left them.
LinkIdempotent ==
    [][\A t \in ToolIds :
         (last.op = "linkTool" /\ last.arg = t /\ last.res = "ok"
            /\ linkToolWith(t, NoFault))
           => last'.res = "ok" /\ node' = node /\ wh' = wh]_vars

\* A tool has been linked on win32 to a warehouse that holds entries: the
\* state in which the second call starts.
LinkedOnce ==
    /\ last.op = "linkTool" /\ last.res = "ok" /\ last.arg = "opencode"
    /\ platform = "win32"
    /\ node[GlobalPath("opencode")[1]] = LinkNode("W")
    /\ \A x \in EntryNames : wh.e[x].k # "none"

\* The step is a successful sync of the registered source s.
Resynced(s) == last'.op = "syncSource" /\ last'.arg = s /\ last'.res = "ok"

\* n1 and n2 were imported from s before; n1 has since been enabled and n2
\* is still disabled.
OneEnabled(s, n1, n2) ==
    /\ n1 # n2 /\ InRepo(n1, s) /\ InRepo(n2, s) /\ Len(RepoSkills(s)) = 2
    /\ HasMarker(enabled[n1]) /\ enabled[n1].f[META] # 0 /\ ~disabled[n1].ex
    /\ HasMarker(disabled[n2]) /\ disabled[n2].f[META] # 0 /\ ~enabled[n2].ex

\* C11 as stated: after a first sync imported two packages and one of them
\* was enabled, a re-sync reports added=1, updated=1 and the enabled package
\* stays enabled.
ResyncCountsOneAdded ==
    [][\A s \in SrcIds, n1, n2 \in Names :
         (Resynced(s) /\ OneEnabled(s, n1, n2))
           => last'.added = 1 /\ last'.updated = 1 /\ HasMarker(enabled'[n1])]_vars

\* C11 amended: that re-sync reports added=0, updated=2; the enabled package
\* stays enabled and gets no copy in the disabled partition.
ResyncCountsBothUpdated ==
    [][\A s \in SrcIds, n1, n2 \in Names :
         (Resynced(s) /\ OneEnabled(s, n1, n2))
           => /\ last'.added = 0 /\ last'.updated = 2
              /\ HasMarker(enabled'[n1]) /\ ~disabled'[n1].ex
              /\ HasMarker(disabled'[n2]) /\ ~enabled'[n2].ex]_vars

\* A re-sync has updated one enabled and one disabled package.
ResyncedOneEnabled ==
    /\ last.op = "syncSource" /\ last.res = "ok" /\ last.added = 0 /\ last.updated = 2
    /\ \E n1, n2 \in Names :
         /\ n1 # n2 /\ InRepo(n1, last.arg) /\ InRepo(n2, last.arg)
         /\ HasMarker(enabled[n1]) /\ enabled[n1].f[META] = checkout[last.arg]
         /\ ~disabled[n1].ex
         /\ HasMarker(disabled[n2]) /\ disabled[n2].f[META] = checkout[last.arg]
         /\ ~enabled[n2].ex

\* The step is a successful sync of s, alone or as the first sync of an add.
SyncedOk(s) == Synced(s) /\ last'.res = "ok"

RepoNames(s) == {n \in Names : InRepo(n, s)}

\* Names of s that are a package in neither partition.
NewPackages(s) == {n \in RepoNames(s) : ~HasMarker(enabled[n]) /\ ~HasMarker(disabled[n])}

\* Names of s for which the import finds nothing to overwrite: no enabled
\* package and no directory in the disabled partition.
NewDirectories(s) == {n \in RepoNames(s) : ~HasMarker(enabled[n]) /\ ~disabled[n].ex}

\* C12 as stated: a successful sync counts every package of the source once,
\* as added when its name was a package in neither partition and as updated
\* otherwise; two new packages give added=2, updated=0, both in disabled.
CountsByPackage ==
    [][\A s \in SrcIds :
         SyncedOk(s)
           => /\ last'.added = Cardinality(NewPackages(s))
              /\ last'.updated = Cardinality(RepoNames(s) \ NewPackages(s))]_vars

\* C12 amended: a successful sync counts every package of the source once,
\* as updated when the import overwrote an existing directory (an enabled
\* package, or any directory of that name in the disabled partition) and as
\* added otherwise; the added ones are new packages of the disabled
\* partition.
CountsByOverwrite ==
    [][\A s \in SrcIds :
         SyncedOk(s)
           => /\ last'.added = Cardinality(NewDirectories(s))
              /\ last'.updated = Cardinality(RepoNames(s) \ NewDirectories(s))
              /\ \A n \in NewDirectories(s) :
                   HasMarker(disabled'[n]) /\ enabled'[n] = enabled[n]]_vars

\* The first sync of a source with two new package directories has reported
\* added=2, updated=0 and both are in the disabled partition.
TwoAdded ==
    /\ last.op = "addSkillSource" /\ last.res = "ok"
    /\ last.added = 2 /\ last.updated = 0
    /\ \A n \in RepoNames(last.arg) :
         HasMarker(disabled[n]) /\ disabled[n].f[META] = checkout[last.arg] /\ ~enabled[n].ex

\* The checkout holds the small file "../shared-skill" at the configured
\* subpath skills/link and a package at shared-skill beside skills.
PlaceholderCheckout ==
    /\ sparse.skillsPath = Subpath
    /\ Subpath \in sparse.have
    /\ sparse.repo[Subpath] = [k |-> "file", text |-> <<"..", "shared-skill">>, small |-> TRUE]
    /\ Target \in sparse.have
    /\ sparse.repo[Target].k = "pkg"

\* C13: a sync of a checkout whose configured subpath is a small file with
\* the text ../shared-skill imports the package found at shared-skill beside
\* the subpath's parent directory, under the name shared-skill, and nothing
\* else.
PlaceholderResolved ==
    (sparse.phase = "synced" /\ PlaceholderCheckout)
      => sparse.found = {[name |-> "shared-skill", from |-> Target]}

\* Such a checkout came out of a sparse clone and has been scanned, with a
\* second package of the same name lying beside the placeholder.
PlaceholderScanned ==
    /\ sparse.phase = "synced" /\ PlaceholderCheckout
    /\ sparse.repo[Beside].k = "pkg"
    /\ Beside \notin sparse.have
    /\ sparse.found # {}

\* C14: a sync leaves the enabled partition's entry of every name that is
\* not an enabled package as it was, and a successful sync has written each
\* such package of the source into the disabled partition, creating it there
\* or overwriting what was there.
ImportNeverEnables ==
    [][\A s \in SrcIds, n \in Names :
         (Synced(s) /\ ~HasMarker(enabled[n]))
           => /\ enabled'[n] = enabled[n]
              /\ (last'.res = "ok" /\ InRepo(n, s))
                   => /\ HasMarker(disabled'[n])
                      /\ disabled'[n].f[MARKER] = checkout'[s]
                      /\ disabled'[n].f[META] = checkout'[s]]_vars

\* A sync has created one package in the disabled partition and overwritten
\* another there; neither is in the enabled partition.
CreatedAndOverwrittenInDisabled ==
    /\ last.op \in {"syncSource", "addSkillSource"} /\ last.res = "ok"
    /\ last.added = 1 /\ last.updated = 1
    /\ \A n \in RepoNames(last.arg) :
         HasMarker(disabled[n]) /\ disabled[n].f[MARKER] = checkout[last.arg] /\ ~enabled[n].ex

\* The step is one of task t running op.
StepOf(t, ops) == proc[t].op \in ops /\ proc'[t] # proc[t]

\* C15: a step of an addSkillSource or syncSource for one source leaves the
\* record of every other source in the registry as it was.
SyncKeepsOtherSources ==
    [][\A t \in Tasks :
         StepOf(t, {"addSkillSource", "syncSource"})
           => \A x \in SrcIds \ {TaskSrc(t)} :
                RecordOf(registry', x) = RecordOf(registry, x)]_vars

\* Record b is record a but for the cached result of the update check.
SameButCheck(a, b) ==
    IF a.id = "none" \/ b.id = "none" THEN a = b
    ELSE [b EXCEPT !.hasUpdate = a.hasUpdate, !.lastChecked = a.lastChecked] = a

\* C16: a step of checkAllSourcesForUpdates changes no record of the
\* registry but for hasUpdate and lastChecked: it brings back no removed
\* source, drops no added source and reverts no recorded revision or status.
CheckKeepsUserChanges ==
    [][StepOf("t2", {"checkAllSourcesForUpdates"})
         => \A x \in SrcIds :
              SameButCheck(RecordOf(registry, x), RecordOf(registry', x))]_vars

\* C17: the registry the step leaves holds no id twice, and an
\* addSkillSource whose URL gives an id that is already registered throws and
\* leaves the registry, the checkouts and both partitions as they were.
UniqueIds(reg) == \A i, j \in 1..Len(reg) : reg[i].id = reg[j].id => i = j
RegistryIdsUnique ==
    [][/\ UniqueIds(registry')
       /\ (last'.op = "addSkillSource" /\ IndexOf(registry, last'.arg) # 0)
            => /\ last'.res = "exists"
               /\ UNCHANGED <<registry, checkout, enabled, disabled>>]_vars

\* Two sources are registered and adding one of them again was refused.
DuplicateRefused ==
    /\ Len(registry) = 2
    /\ last.op = "addSkillSource" /\ last.res = "exists"

\* C18: removeSkillSource(id) of a registered id leaves no record and no
\* checkout directory of id, and leaves both partitions, every other record
\* and every other checkout as they were; for an id that is not registered
\* it throws and changes nothing.
RemoveFrame ==
    [][\A s \in SrcIds :
         (last'.op = "removeSkillSource" /\ last'.arg = s)
           => /\ UNCHANGED <<enabled, disabled, remote>>
              /\ \A x \in SrcIds \ {s} :
                    /\ RecordOf(registry', x) = RecordOf(registry, x)
                    /\ checkout'[x] = checkout[x]
              /\ IF IndexOf(registry, s) # 0
                 THEN /\ last'.res = "ok"
                      /\ IndexOf(registry', s) = 0
                      /\ Len(registry') = Len(registry) - 1
                      /\ checkout'[s] = 0
                 ELSE /\ last'.res = "error"
                      /\ UNCHANGED <<registry, checkout>>]_vars

\* A synced source was removed: its packages are still in the warehouse, the
\* other source is still registered with its checkout.
RemovedKeepsPackages ==
    /\ last.op = "removeSkillSource" /\ last.res = "ok" /\ last.arg = "s1"
    /\ IndexOf(registry, "s1") = 0 /\ checkout["s1"] = 0
    /\ IndexOf(registry, "s2") # 0 /\ checkout["s2"] # 0
    /\ HasMarker(disabled["p"])

\* C19: a check reports an update for a source without a checkout, and for a
\* source with a checkout exactly when the remote head differs from the
\* lastCommitHash of its record.
UpdateIffRecordedDiffers ==
    [][last'.op = "checkAllSourcesForUpdates"
         => \A i \in 1..Len(registry) :
              LET s == registry[i] IN
              (registry'[i].hasUpdate = "true")
                <=> (checkout[s.id] = 0 \/ remote[s.id] # s.lastCommitHash)]_vars

\* C20: a check changes no partition, no checkout and no remote, keeps the
\* records in place and changes at most their hasUpdate and lastChecked;
\* getSourcesStatus changes nothing and counts the records whose stored
\* hasUpdate is true, whatever the remote heads are.
CheckFrame ==
    [][/\ last'.op = "checkAllSourcesForUpdates"
            => /\ UNCHANGED <<enabled, disabled, checkout, remote>>
               /\ Len(registry') = Len(registry)
               /\ \A i \in 1..Len(registry) :
                     registry[i] = [registry'[i] EXCEPT !.hasUpdate = registry[i].hasUpdate,
                                                       !.lastChecked = registry[i].lastChecked]
       /\ last'.op = "getSourcesStatus"
            => /\ UNCHANGED <<enabled, disabled, checkout, remote, registry>>
               /\ last'.updated
                    = Cardinality({i \in 1..Len(registry) : registry[i].hasUpdate = "true"})]_vars

\* A check found a synced source up to date, the remote moved on, and
\* getSourcesStatus still answers that no source has an update.
StatusFromCache ==
    /\ last.op = "getSourcesStatus" /\ last.updated = 0
    /\ \E i \in 1..Len(registry) :
         /\ registry[i].hasUpdate = "false" /\ registry[i].lastChecked = 1
         /\ registry[i].status = "synced"
         /\ remote[registry[i].id] # checkout[registry[i].id]

SyncReturned(s) ==
    /\ last'.op \in {"syncSource", "addSkillSource"} /\ last'.arg = s
    /\ last'.res \in {"ok", "error", "syncError"}

\* C21 as stated: when syncSource returns, the record of the source has
\* status synced and its lastCommitHash is the revision of the checkout.
SyncRecordsHead ==
    [][\A s \in SrcIds :
         (SyncReturned(s) /\ last'.res = "ok")
           => /\ RecordOf(registry', s).status = "synced"
              /\ RecordOf(registry', s).lastCommitHash = checkout'[s]
              /\ checkout'[s] = remote[s]]_vars

\* C21 amended: when syncSource returns, the record has status synced and
\* its lastCommitHash is the revision of the checkout, or is absent when git
\* rev-parse gave no answer.
SyncRecordsHeadIfRead ==
    [][\A s \in SrcIds :
         (SyncReturned(s) /\ last'.res = "ok")
           => /\ RecordOf(registry', s).status = "synced"
              /\ RecordOf(registry', s).lastCommitHash \in {checkout'[s], 0}
              /\ checkout'[s] = remote[s]]_vars

\* A source synced at revision 1 was synced again at revision 2 and its
\* record lost the hash.
SyncedWithoutHash ==
    /\ last.op = "syncSource" /\ last.res = "ok" /\ last.arg = "s1"
    /\ checkout["s1"] = 2
    /\ RecordOf(registry, "s1").status = "synced"
    /\ RecordOf(registry, "s1").lastCommitHash = 0

\* C22: after syncSource returned or threw, the checkout of the source is
\* absent or at the remote head; a checkout whose pull failed is replaced by
\* a clone, or is gone when the clone failed too.
CheckoutNeverBroken ==
    [][\A s \in SrcIds :
         /\ checkout'[s] # Broken
         /\ SyncReturned(s)
              => /\ checkout'[s] \in {0, remote[s]}
                 /\ last'.res = "ok" => checkout'[s] = remote[s]]_vars

\* The sync of the source with a subpath threw and its checkout, present
\* since the first sync, is gone.
CheckoutDiscarded ==
    /\ last.op = "syncSource" /\ last.res = "error" /\ last.arg = "s2"
    /\ RecordOf(registry, "s2").status = "synced"
    /\ checkout["s2"] = 0

\* C23: unlinkTool of a tool whose target path is an ordinary directory or
\* absent answers not-linked and leaves every path and the warehouse as they
\* were.
UnlinkNotLinked ==
    [][\A t \in ToolIds :
         (last'.op = "unlinkTool" /\ last'.arg = t
            /\ node[UnlinkTarget(t, node)].t \in {"dir", "absent"})
           => /\ last'.res = "notLinked"
              /\ UNCHANGED <<node, wh>>]_vars

\* unlinkTool answered not-linked for a tool whose path is an ordinary
\* directory with an entry, beside a warehouse that has entries.
NotLinkedDirectoryKept ==
    /\ last.op = "unlinkTool" /\ last.res = "notLinked" /\ last.arg = "claude"
    /\ node[".claude/skills"].t = "dir"
    /\ node[".claude/skills"].e["a"].k = "file"
    /\ wh.ex /\ wh.e["b"].k = "file"

PathsOf(t) == {GlobalPath(t)[i] : i \in 1..Len(GlobalPath(t))}

\* C25: a linkTool or unlinkTool of one tool leaves what lies at every path
\* of every other tool as it was, whether or not that tool is linked.
LinkLeavesOtherTools ==
    [][\A t \in ToolIds :
         (last'.op \in {"linkTool", "unlinkTool"} /\ last'.arg = t)
           => \A u \in ToolIds \ {t} : \A p \in PathsOf(u) : node'[p] = node[p]]_vars

\* Both tools are linked to the warehouse at once, the second link made
\* while the first was in place.
BothLinked ==
    /\ last.op = "linkTool" /\ last.res = "ok" /\ last.arg = "opencode"
    /\ node[".claude/skills"] = LinkNode("W")
    /\ node[".config/opencode/skill"] = LinkNode("W")

\* C26: detectTools calls a tool linked only if one of its root directories
\* exists and one of its skills paths is a link to the warehouse; a tool
\* without a root directory is called not installed and not linked.
LinkedMeansWarehouse ==
    [][last'.op = "detectTools"
         => \A t \in ToolIds :
              LET st == last'.status[t]
                  anchored == \E i \in 1..Len(RootPath(t)) : root[RootPath(t)[i]]
              IN  /\ st.isLinked
                       => anchored /\ \E p \in PathsOf(t) : node'[p] = LinkNode("W")
                  /\ ~anchored => ~st.isInstalled /\ ~st.isLinked]_vars

\* C24: after an unlinkTool that succeeded the target is an ordinary
\* directory, holding what the warehouse held when syncBack was asked for and
\* nothing otherwise; a later change of the warehouse leaves it as it is; and
\* detectTools calls a tool whose skills path is an ordinary directory
\* installed and not linked.
UnlinkLeavesSnapshot ==
    [][/\ \A t \in ToolIds, syncBack \in BOOLEAN :
            (unlinkTool(t, syncBack) /\ last'.res = "ok")
              => LET p == UnlinkTarget(t, node) IN
                 /\ node'[p].t = "dir"
                 /\ node'[p].e = IF syncBack THEN wh.e ELSE NoEntries
       /\ last'.op = "warehouseWrite" => node' = node
       /\ last'.op = "detectTools"
            => \A t \in ToolIds :
                 node[UnlinkTarget(t, node)].t = "dir"
                   => last'.status[t].isInstalled /\ ~last'.status[t].isLinked]_vars

\* C27: an enableSkill or disableSkill of a name whose directory in the
\* partition it moves from is missing or holds no SKILL.md throws and leaves
\* both partitions as they were.
MoveOnlyPackages ==
    [][\A n \in Names :
         /\ (last'.op = "enableSkill" /\ last'.arg = n /\ ~HasMarker(disabled[n]))
              => last'.res = "error" /\ UNCHANGED <<enabled, disabled>>
         /\ (last'.op = "disableSkill" /\ last'.arg = n /\ ~HasMarker(enabled[n]))
              => last'.res = "error" /\ UNCHANGED <<enabled, disabled>>]_vars

\* The ancestors of a path beneath the scan root.
Ancestors(p) == {SubSeq(p, 1, i) : i \in 1..(Len(p) - 1)}

\* A path with a segment whose name begins with a dot.
HiddenPath(p) == \E i \in 1..Len(p) : p[i] = ".h"

\* A directory holding SKILL.md that lies within the depth bound, is not
\* hidden nor under a hidden directory, and whose ancestors can all be read.
InReach(tree, p, maxDepth) ==
    /\ tree[p] = "pkg"
    /\ Len(p) <= maxDepth + 1
    /\ ~HiddenPath(p)
    /\ \A a \in Ancestors(p) : tree[a] \in {"dir", "pkg"}

PanelReportsAfterOperation ==
    /\ [][/\ (proc.pc = "refresh" /\ proc'.pc = "idle") => proc.res # "none"
          /\ (proc'.msg # proc.msg /\ proc'.msg # "none") => proc'.res # "none"]_vars
    /\ [](proc.pc = "idle" /\ proc.job = "none" /\ proc.op # "none"
            => /\ proc.res # "ok" => proc.msg = "error"
               /\ proc.res = "ok" => /\ proc.msg = "info"
                                     /\ proc.shown = Listing(enabled, disabled, registry))

\* C30: the rename is attempted at most maxRetries times; it is attempted
\* again after a resource-busy failure that was not the last attempt and
\* after no other failure; the last failed attempt leads to copy+delete.
RenameRetriedWhenBusy ==
    [][proc.pc = "rename" =>
         /\ proc'.attempts <= maxRetries
         /\ proc'.pc = "rename" => proc'.code \in Busy
         /\ (proc'.pc # "idle" /\ proc'.code \in Busy /\ proc'.attempts < maxRetries)
              => proc'.pc = "rename"
         /\ (proc'.pc # "idle" /\ proc'.attempts = maxRetries) => proc'.pc = "copy"]_vars

SyncAllCoversEnabled ==
    [][last'.op = "syncAllSources" =>
         /\ \A s \in SrcIds :
              last'.outcome[s] # "skipped"
                <=> (IndexOf(registry, s) # 0 /\ RecordOf(registry, s).enabled)
         /\ last'.total = last'.success + last'.failed
         /\ last'.total = Cardinality({i \in 1..Len(registry) : registry[i].enabled})
         /\ \A s \in SrcIds :
              last'.outcome[s] = "skipped"
                => RecordOf(registry', s) = RecordOf(registry, s) /\ checkout'[s] = checkout[s]]_vars

\* The sync of the first source failed and the second was synced all the same.
SyncedAfterFailure ==
    /\ last.op = "syncAllSources"
    /\ last.outcome["s1"] = "failed"
    /\ last.outcome["s2"] = "ok"

\* C33: createSymlinkForTool removes no ordinary directory.  Without force
\* it fails on one and leaves every path as it was; with force the directory
\* stays where it is or lies, with what it held, at a backup path that was
\* free, and when the call succeeds the tool path is a link to the
\* warehouse; a link at the tool path is replaced by a link to the warehouse
\* when the call succeeds.
SymlinkKeepsDirectory ==
    [][\A t \in CmdTools :
         (last'.op = "createSymlinkForTool" /\ last'.arg = t) =>
           LET nd == node[<<t, 0>>] IN
           /\ \A p \in CmdPaths : p[1] # t => node'[p] = node[p]
           /\ wh'.e = wh.e
           /\ (nd.t = "dir" /\ ~last'.force) => last'.res = "error" /\ node' = node
           /\ (nd.t = "dir" /\ last'.force) =>
                \/ node' = node /\ last'.res = "error"
                \/ \E k \in 1..MaxBackups :
                     /\ node[<<t, k>>].t = "absent"
                     /\ node'[<<t, k>>] = nd
                     /\ \A j \in 1..MaxBackups : j # k => node'[<<t, j>>] = node[<<t, j>>]
                     /\ last'.res = "ok" => node'[<<t, 0>>] = LinkNode("W")
           /\ (nd.t = "link" /\ last'.res = "ok") => node'[<<t, 0>>] = LinkNode("W")]_vars

\* A forced call has moved a directory with a file in it to a backup path
\* and linked the tool path to the warehouse.
DirectoryBackedUp ==
    /\ last.op = "createSymlinkForTool"
    /\ last.force
    /\ last.res = "ok"
    /\ node[<<last.arg, 0>>] = LinkNode("W")
    /\ \E k \in 1..MaxBackups :
         node[<<last.arg, k>>].t = "dir" /\ node[<<last.arg, k>>].e["a"].k = "file"

\* C34: when a toggle of a package and an import of the same package have
\* both finished, whatever the order of their steps, the package is not in
\* both partitions.
UniquenessInterleaved ==
    (proc.mov.pc = "idle" /\ proc.imp.pc = "idle") => \A n \in Names : ~InBoth(n)

\* C35: a source that the update check has flagged and whose sync then
\* succeeds with the checkout at the remote head is no longer flagged, and
\* getSourcesStatus does not count it.
SyncClearsUpdateFlag ==
    [][\A s \in SrcIds :
         (/\ last'.op = "syncSource" /\ last'.arg = s /\ last'.res = "ok"
          /\ RecordOf(registry, s).hasUpdate = "true"
          /\ checkout'[s] = remote[s])
           => /\ RecordOf(registry', s).hasUpdate # "true"
              /\ IndexOf(registry', s) \notin Flagged(registry')]_vars

\* C36: when syncSource fails for a source whose record has status synced,
\* the record does not keep status synced.
FailedSyncNotSynced ==
    [][\A s \in SrcIds :
         (/\ last'.op = "syncSource" /\ last'.arg = s /\ last'.res = "error"
          /\ RecordOf(registry, s).status = "synced")
           => RecordOf(registry', s).status # "synced"]_vars

\* C37: when linkTool is called on an ordinary tool directory, the directory
\* is removed only if every one of its entries, of whatever kind, has a
\* same-named entry in the warehouse afterwards; when the call fails the
\* directory is left as it was.
MergeKeepsEveryEntry ==
    [][\A t \in ToolIds :
         LET p == GlobalPath(t)[1] IN
         (last'.op = "linkTool" /\ last'.arg = t /\ node[p].t = "dir")
           => /\ node'[p] # node[p]
                   => \A x \in EntryNames :
                        node[p].e[x].k # "none" => wh'.e[x].k # "none"
              /\ last'.res = "error" => node'[p] = node[p]]_vars

\* C38: when linkTool succeeds for a tool right after detectTools has
\* reported the tool's current skills path, that path is a link to the
\* warehouse, and the files and directories of the directory that was there
\* are in the warehouse by name.
LinkActsOnDetectedPath ==
    [][\A t \in ToolIds :
         (/\ last.op = "detectTools"
          /\ last'.op = "linkTool" /\ last'.arg = t /\ last'.res = "ok"
          /\ last.status[t].isInstalled)
           => LET p == last.status[t].currentPath IN
              /\ node'[p] = LinkNode("W")
              /\ node[p].t = "dir"
                   => \A x \in EntryNames :
                        node[p].e[x].k \in {"file", "dir"} => wh'.e[x].k # "none"]_vars

\* C39: when addSkillSource fails in its initial sync, the enabled and the
\* disabled partition hold what they held before the call.
FailedAddLeavesPartitions ==
    [][(last'.op = "addSkillSource" /\ last'.res = "syncError")
         => enabled' = enabled /\ disabled' = disabled]_vars

====
